---- MODULE Spec2Model ----
(***************************************************************************)
(* Model of the crypto-technicals snapshot exporter                        *)
(* (src/src/exporter/snapshot_exporter.py): the freshness policy as pure   *)
(* operators, and SnapshotExporter.export as a state machine over the      *)
(* combined snapshot file latest_snapshot.json.                            *)
(*                                                                         *)
(* Time is counted in ticks; TicksPerHour ticks make one hour, 24 hours    *)
(* one calendar day.  A datetime is the record [date, hour, sub] that      *)
(* datetime exposes through .date(), .hour and the rest of the time of     *)
(* day.                                                                    *)
(***************************************************************************)
EXTENDS Integers, Sequences, FiniteSets, TLC

VARIABLES
    clock,      \* wall clock read by datetime.utcnow(), in ticks
    snapshot,   \* contents of snapshots/latest_snapshot.json, or PyNone
    backups,    \* per horizon: name of the newest timestamped backup file
    histAt,     \* per horizon: time of the last written run that carried history
    longAt,     \* per horizon: time of the last written run that carried long stats
    ranAt,      \* per horizon: time of the last written run
    last,       \* what the last export call saw and did
    fargs,      \* arguments of a direct _determine_freshness call
    fexisting,  \* the prior-state dict passed to that call (a mutable Python dict)
    fret,       \* its return value
    cargs,      \* arguments of a direct call of the indicator engine or of
                \* the signal classifier
    cret,       \* what that call returned, raised and printed
    pc          \* position of the direct call: "ready" | "done" | "off"

vars == <<clock, snapshot, backups, histAt, longAt, ranAt, last, fargs, fexisting, fret,
          cargs, cret, pc>>

(***************************************************************************)
(* Bounds                                                                  *)
(***************************************************************************)
TicksPerHour == 2
MaxDays == 2

MaxTime == MaxDays * 24 * TicksPerHour
Times == 0 .. (MaxTime - 1)

(***************************************************************************)
(* Python values                                                           *)
(***************************************************************************)
PyNone == [pynone |-> TRUE]
EmptyDict == [k \in {} |-> PyNone]

\* bool(d) of an Optional[dict]
Truthy(d) == d # PyNone /\ DOMAIN d # {}

\* dict.get(key) and dict.get(key, default)
Get(d, key, default) == IF key \in DOMAIN d THEN d[key] ELSE default

(***************************************************************************)
(* datetime                                                                *)
(***************************************************************************)
DateTime(t) ==
    [date |-> t \div (24 * TicksPerHour),
     hour |-> (t \div TicksPerHour) % 24,
     sub  |-> t % TicksPerHour]

Ticks(dt) == (dt.date * 24 + dt.hour) * TicksPerHour + dt.sub

\* A str holding a timestamp: the date-time text and the trailing zone tokens.
\* now.isoformat() of a naive datetime has no zone part.
isoformat(dt) == [body |-> <<dt.date, dt.hour, dt.sub>>, tz |-> <<>>]

\* s + 'Z'
PlusZ(s) == [s EXCEPT !.tz = Append(s.tz, "Z")]

\* s.replace('Z', '+00:00')
ReplaceZ(s) ==
    [s EXCEPT !.tz = [i \in DOMAIN s.tz |-> IF s.tz[i] = "Z" THEN "+00:00" ELSE s.tz[i]]]

\* datetime.fromisoformat(s) raises ValueError unless s is a date-time text
\* followed by at most one UTC offset.
ParseRaises(s) == Len(s.body) # 3 \/ Len(s.tz) > 1 \/ (Len(s.tz) = 1 /\ s.tz[1] # "+00:00")

\* datetime.fromisoformat(s).replace(tzinfo=None), for s that parses
fromisoformat(s) == [date |-> s.body[1], hour |-> s.body[2], sub |-> s.body[3]]

EmptyStr == [body |-> <<>>, tz |-> <<>>]
GarbageStr == [body |-> <<>>, tz |-> <<"Z">>]

(***************************************************************************)
(* Freshness policy                                                        *)
(***************************************************************************)
Granularities == {"1h", "4h", "1d", "15m"}

\* Mutant: a day counted as 24 elapsed hours instead of a calendar date
crossed_daily_boundary_elapsed(last_run, now) ==
    Ticks(now) - Ticks(last_run) >= 24 * TicksPerHour

_crossed_daily_boundary(last_run, now) == last_run.date # now.date

\* Mutant: the hourly rule forgets the date
crossed_data_boundary_no_date(last_run, now, granularity) ==
    IF granularity \in {"1h"}
    THEN last_run.hour # now.hour
    ELSE IF granularity \in {"4h"}
    THEN (last_run.hour \div 4) # (now.hour \div 4) \/ last_run.date # now.date
    ELSE IF granularity \in {"1d"}
    THEN last_run.date # now.date
    ELSE last_run.hour # now.hour

\* Mutant: the 4-hour period taken with % instead of //
crossed_data_boundary_mod4(last_run, now, granularity) ==
    IF granularity \in {"1h"}
    THEN last_run.hour # now.hour \/ last_run.date # now.date
    ELSE IF granularity \in {"4h"}
    THEN (last_run.hour % 4) # (now.hour % 4) \/ last_run.date # now.date
    ELSE IF granularity \in {"1d"}
    THEN last_run.date # now.date
    ELSE last_run.hour # now.hour \/ last_run.date # now.date

\* Mutant: no branch for daily data, which falls back to the hourly rule
crossed_data_boundary_no_1d(last_run, now, granularity) ==
    IF granularity \in {"1h"}
    THEN last_run.hour # now.hour \/ last_run.date # now.date
    ELSE IF granularity \in {"4h"}
    THEN (last_run.hour \div 4) # (now.hour \div 4) \/ last_run.date # now.date
    ELSE last_run.hour # now.hour \/ last_run.date # now.date

\* Mutant: the whole timestamps compared instead of their hour and date
crossed_data_boundary_exact(last_run, now, granularity) ==
    IF granularity \in {"1d"}
    THEN last_run.date # now.date
    ELSE last_run # now

_crossed_data_boundary(last_run, now, granularity) ==
    IF granularity \in {"1h"}
    THEN last_run.hour # now.hour \/ last_run.date # now.date
    ELSE IF granularity \in {"4h"}
    THEN (last_run.hour \div 4) # (now.hour \div 4) \/ last_run.date # now.date
    ELSE IF granularity \in {"1d"}
    THEN last_run.date # now.date
    ELSE last_run.hour # now.hour \/ last_run.date # now.date

\* lines 137-144: the boundary branch, once last_run was parsed
BoundaryFreshness(last_run, now, granularity) ==
    <<_crossed_data_boundary(last_run, now, granularity),
      _crossed_daily_boundary(last_run, now)>>

\* Mutant: an unparsable run_timestamp falls back to now instead of returning
LastRunOfFallbackNow(existing_snapshot, now) ==
    IF ~Truthy(existing_snapshot) \/ "meta" \notin DOMAIN existing_snapshot
    THEN PyNone
    ELSE LET last_run_str == Get(existing_snapshot["meta"], "run_timestamp", PyNone)
         IN  IF last_run_str = PyNone \/ last_run_str = EmptyStr THEN PyNone
             ELSE IF ParseRaises(ReplaceZ(last_run_str)) THEN now
             ELSE fromisoformat(ReplaceZ(last_run_str))

\* lines 118-135: what the prior state yields: PyNone where the code returns
\* (True, True) for lack of a prior run, and the parsed last_run otherwise
LastRunOf(existing_snapshot, now) ==
    IF ~Truthy(existing_snapshot) \/ "meta" \notin DOMAIN existing_snapshot
    THEN PyNone
    ELSE LET last_run_str == Get(existing_snapshot["meta"], "run_timestamp", PyNone)
         IN  IF last_run_str = PyNone \/ last_run_str = EmptyStr THEN PyNone
             ELSE IF ParseRaises(ReplaceZ(last_run_str)) THEN PyNone
             ELSE fromisoformat(ReplaceZ(last_run_str))

\* Mutant: force_hourly alone also forces the long-horizon stats
ForcedFreshnessAll(force_hourly, force_daily) == <<TRUE, TRUE>>

\* lines 110-116: the force flags
ForcedFreshness(force_hourly, force_daily) ==
    IF force_hourly /\ force_daily THEN <<TRUE, TRUE>>
    ELSE IF force_hourly THEN <<TRUE, FALSE>>
    ELSE <<TRUE, TRUE>>

_determine_freshness(existing_snapshot, now, granularity, force_hourly, force_daily) ==
    IF force_hourly \/ force_daily
    THEN ForcedFreshness(force_hourly, force_daily)
    ELSE LET last_run == LastRunOf(existing_snapshot, now)
         IN  IF last_run = PyNone THEN <<TRUE, TRUE>>
             ELSE BoundaryFreshness(last_run, now, granularity)

_determine_freshness_for_horizon(existing_horizon_data, now, granularity, force_hourly, force_daily) ==
    _determine_freshness(existing_horizon_data, now, granularity, force_hourly, force_daily)

(***************************************************************************)
(* A direct call of the freshness policy                                   *)
(***************************************************************************)
Horizons == {"intraday", "swing"}
\* No written run yet
NoTime == 0 - 1

\* The horizon payload's meta section as far as the policy reads it
MetaAt(t) == [run_timestamp |-> PlusZ(isoformat(DateTime(t)))]

\* Prior states without a usable last run: None, {}, no meta, no
\* run_timestamp, a null, empty or unparsable run_timestamp
ColdInputs ==
    {PyNone, EmptyDict, [news |-> EmptyDict], [meta |-> EmptyDict],
     [meta |-> [run_timestamp |-> PyNone]],
     [meta |-> [run_timestamp |-> EmptyStr]],
     [meta |-> [run_timestamp |-> GarbageStr]]}

WarmInputs == {[meta |-> MetaAt(t)] : t \in Times}

\* Mutant: the run timestamp taken with meta.pop('run_timestamp', None)
ExistingAfterPop(existing_snapshot) ==
    IF Truthy(existing_snapshot) /\ "meta" \in DOMAIN existing_snapshot
    THEN [existing_snapshot EXCEPT !["meta"] =
             [k \in DOMAIN existing_snapshot["meta"] \ {"run_timestamp"} |->
                  existing_snapshot["meta"][k]]]
    ELSE existing_snapshot

\* lines 119-131 read the dict with `in`, [] and .get only: the dict the
\* caller passed is the same after the call
ExistingAfterFreshness(existing_snapshot) == existing_snapshot

RunsIdle ==
    /\ clock = 0
    /\ backups = [h \in Horizons |-> PyNone]
    /\ histAt = [h \in Horizons |-> NoTime]
    /\ longAt = [h \in Horizons |-> NoTime]
    /\ ranAt = [h \in Horizons |-> NoTime]
    /\ last = PyNone

\* No direct call of the engine or of the classifier
CallsIdle == cargs = PyNone /\ cret = PyNone

callVars == <<cargs, cret>>

runVars == <<clock, backups, histAt, longAt, ranAt, last>>

FreshnessInit ==
    /\ pc = "ready"
    /\ fexisting \in ColdInputs \cup WarmInputs
    /\ fargs \in [now : {DateTime(t) : t \in Times}, granularity : Granularities,
                  force_hourly : BOOLEAN, force_daily : BOOLEAN]
    /\ fret = PyNone
    /\ snapshot = IF Truthy(fexisting) THEN [intraday |-> fexisting] ELSE PyNone
    /\ RunsIdle
    /\ CallsIdle

FreshnessCall ==
    /\ pc = "ready"
    /\ fret' = _determine_freshness_for_horizon(fexisting, fargs.now, fargs.granularity,
                                                fargs.force_hourly, fargs.force_daily)
    /\ fexisting' = ExistingAfterFreshness(fexisting)
    /\ pc' = "done"
    /\ UNCHANGED <<fargs, snapshot, runVars, callVars>>

FreshnessNext == FreshnessCall

SpecFreshness == FreshnessInit /\ [][FreshnessNext]_vars

\* The inputs of the finished call, as the claims name them
Done == pc = "done"
Unforced == ~fargs.force_hourly /\ ~fargs.force_daily
HasPrior == fexisting \in WarmInputs
PriorRun == DateTime(CHOOSE t \in Times : fexisting = [meta |-> MetaAt(t)])
DateDiffers == PriorRun.date # fargs.now.date
HourDiffers == PriorRun.hour # fargs.now.hour

(***************************************************************************)
(* SnapshotExporter.export                                                 *)
(*                                                                         *)
(* One action per outcome of a call.  The call's inputs are the horizon,   *)
(* the granularity found in the results' metadata, the force flags,        *)
(* whether the global market fetch gave data, whether market_context.json  *)
(* can be read, and the wall clock, which never runs backwards.  Of the    *)
(* payload, the parts that a later run reads back are kept: the meta       *)
(* timestamps and the news; horizon, granularity and coins_tracked of the  *)
(* meta and the market_overview, cross_coin and coins sections are written *)
(* from the call's inputs and never read again.                            *)
(***************************************************************************)
\* Hours of the day on which the wall clock is sampled over RunDays days: an
\* hour of the first 4-hour period and an hour of the next one.  Runs with force
\* flags are sampled at midnight only.
RunDays == 2
RunHours == {0, 5}
ForcedRunHours == {0}
TimesAt(hours) == {(d * 24 + h) * TicksPerHour : d \in 0 .. (RunDays - 1), h \in hours}
RunTimes == TimesAt(RunHours)
ForcedRunTimes == TimesAt(ForcedRunHours)

\* _load_combined_snapshot: None when the file does not exist
_load_combined_snapshot == snapshot

\* timestamp.strftime("%Y-%m-%dT%H-%M-%SZ")
strftime(dt) == <<dt.date, dt.hour, dt.sub>>

\* _build_news_section
DefaultNews == [headline_count |-> 0, global_sentiment |-> "neutral"]
_build_news_section(existing_horizon_data) ==
    IF Truthy(existing_horizon_data) /\ "news" \in DOMAIN existing_horizon_data
    THEN existing_horizon_data["news"]
    ELSE DefaultNews

\* _build_meta_section: the section timestamps are looked up in the 'meta' of
\* the file loaded by _load_existing_snapshot, the combined snapshot
_build_meta_section(now, horizon, granularity, include_history, include_long_stats) ==
    LET existing_snapshot == _load_combined_snapshot
        stamp == PlusZ(isoformat(now))
        meta == IF Truthy(existing_snapshot) /\ "meta" \in DOMAIN existing_snapshot
                THEN existing_snapshot["meta"] ELSE EmptyDict
        history_timestamp ==
            IF include_history THEN stamp
            ELSE Get(meta, "history_last_updated", PyNone)
        long_stats_timestamp ==
            IF include_long_stats THEN stamp
            ELSE Get(meta, "long_stats_last_updated", PyNone)
    IN  [run_timestamp |-> stamp,
         history_last_updated |-> history_timestamp,
         long_stats_last_updated |-> long_stats_timestamp]

\* _build_combined_meta
_build_combined_meta(combined_snapshot, now) ==
    [last_updated |-> PlusZ(isoformat(now)),
     horizons_present |-> DOMAIN combined_snapshot \ {"meta"}]

\* _build_market_overview with _build_market_overview_fallback: the overview
\* of the fresh global data, else the one read from market_context.json, else
\* line 294 reads the name existing_horizon_data, which the method does not
\* define: NameError
_build_market_overview(global_ok, context_ok) ==
    IF global_ok THEN "fresh"
    ELSE IF context_ok THEN "market_context"
    ELSE "NameError"

\* lines 50-58 with the prior state taken from whichever horizon the file
\* holds, not from the horizon of the call
ExistingHorizonDataOfAny(horizon) ==
    LET combined_snapshot == _load_combined_snapshot
        present == IF Truthy(combined_snapshot)
                   THEN {h \in Horizons : h \in DOMAIN combined_snapshot}
                   ELSE {}
    IN  IF present # {} THEN combined_snapshot[CHOOSE h \in present : h # horizon \/ present = {horizon}]
        ELSE EmptyDict

\* lines 50-58: the prior state of the horizon and the decision
ExistingHorizonData(horizon) ==
    LET combined_snapshot == _load_combined_snapshot
    IN  IF Truthy(combined_snapshot) THEN Get(combined_snapshot, horizon, EmptyDict)
        ELSE EmptyDict

\* lines 66-83: the combined snapshot with this horizon's payload and the
\* top-level meta replaced
CombinedAfter(horizon, now, granularity, include_history, include_long_stats) ==
    LET loaded == _load_combined_snapshot
        combined_snapshot == IF Truthy(loaded) THEN loaded ELSE EmptyDict
        existing_horizon_data == ExistingHorizonData(horizon)
        horizon_payload ==
            [meta |-> _build_meta_section(now, horizon, granularity,
                                          include_history, include_long_stats),
             news |-> _build_news_section(existing_horizon_data)]
        with_horizon ==
            [k \in DOMAIN combined_snapshot \cup {horizon} |->
                IF k = horizon THEN horizon_payload ELSE combined_snapshot[k]]
    IN  [k \in DOMAIN with_horizon \cup {"meta"} |->
            IF k = "meta" THEN _build_combined_meta(with_horizon, now)
            ELSE with_horizon[k]]

\* What the last call was: its horizon and how it ended; for a call that got
\* as far as the market overview, whether the global market fetch gave data
\* and whether market_context.json could be read; and, for a call that wrote,
\* the granularity of its results, the decision its payload carries and the
\* time of the horizon's written run before it
Call(horizon, outcome) == [horizon |-> horizon, outcome |-> outcome]

Raised(horizon, global_ok, context_ok) ==
    [horizon |-> horizon, outcome |-> "raised", global_ok |-> global_ok,
     context_ok |-> context_ok]

Written(horizon, granularity, fresh, prev, global_ok, context_ok) ==
    [horizon |-> horizon, outcome |-> "written", granularity |-> granularity,
     include_history |-> fresh[1], include_long_stats |-> fresh[2], prev |-> prev,
     global_ok |-> global_ok, context_ok |-> context_ok]

\* lines 41-43: no results, nothing is read or written
ExportNothing(horizon, t) ==
    /\ clock' = t
    /\ last' = Call(horizon, "skipped")
    /\ UNCHANGED <<snapshot, backups, histAt, longAt, ranAt>>

\* lines 45-70: the market overview raises before anything is written
ExportRaises(horizon, t) ==
    /\ \E global_ok \in BOOLEAN, context_ok \in BOOLEAN :
           /\ _build_market_overview(global_ok, context_ok) = "NameError"
           /\ last' = Raised(horizon, global_ok, context_ok)
    /\ clock' = t
    /\ UNCHANGED <<snapshot, backups, histAt, longAt, ranAt>>

\* lines 45-88: the payload is built and both files are written
ExportWrites(horizon, t, granularity, force_hourly, force_daily) ==
    LET now == DateTime(t)
        fresh == _determine_freshness_for_horizon(ExistingHorizonData(horizon), now,
                                                  granularity, force_hourly, force_daily)
    IN  /\ \E global_ok \in BOOLEAN, context_ok \in BOOLEAN :
               /\ _build_market_overview(global_ok, context_ok) # "NameError"
               /\ last' = Written(horizon, granularity, fresh, ranAt[horizon],
                                  global_ok, context_ok)
        /\ clock' = t
        /\ snapshot' = CombinedAfter(horizon, now, granularity, fresh[1], fresh[2])
        /\ backups' = [backups EXCEPT ![horizon] = strftime(now)]
        /\ ranAt' = [ranAt EXCEPT ![horizon] = t]
        /\ histAt' = [histAt EXCEPT ![horizon] = IF fresh[1] THEN t ELSE @]
        /\ longAt' = [longAt EXCEPT ![horizon] = IF fresh[2] THEN t ELSE @]

\* export(results, horizon, force_hourly, force_daily) at wall-clock time t,
\* with the force flags drawn from `flags`
Export(horizon, t, flags) ==
    /\ pc = "off"
    /\ t >= clock
    /\ UNCHANGED <<fargs, fexisting, fret, callVars, pc>>
    /\ \/ ExportNothing(horizon, t)
       \/ ExportRaises(horizon, t)
       \/ \E granularity \in Granularities, force_hourly \in flags, force_daily \in flags :
              ExportWrites(horizon, t, granularity, force_hourly, force_daily)

\* After construction: no snapshot file yet
Init ==
    /\ pc = "off"
    /\ fargs = PyNone
    /\ fexisting = PyNone
    /\ fret = PyNone
    /\ snapshot = PyNone
    /\ RunsIdle
    /\ CallsIdle

Next == \E horizon \in Horizons, t \in ForcedRunTimes : Export(horizon, t, BOOLEAN)

Spec == Init /\ [][Next]_vars

\* Runs without force flags
NextUnforced == \E horizon \in Horizons, t \in RunTimes : Export(horizon, t, {FALSE})

SpecUnforced == Init /\ [][NextUnforced]_vars

(***************************************************************************)
(* float                                                                   *)
(*                                                                         *)
(* A float is the exact fraction n/d in lowest terms with d > 0; d = 0     *)
(* holds the IEEE specials inf (n = 1), -inf (n = -1) and NaN (n = 0).     *)
(* Arithmetic is numpy's: it propagates NaN and divides by zero without    *)
(* raising.  Rounding error is left out.                                   *)
(***************************************************************************)
Abs(i) == IF i < 0 THEN 0 - i ELSE i
Sign(i) == IF i > 0 THEN 1 ELSE IF i < 0 THEN 0 - 1 ELSE 0

RECURSIVE Gcd(_, _)
Gcd(a, b) == IF b = 0 THEN a ELSE Gcd(b, a % b)

Frac(n, d) ==
    IF d = 0 THEN [n |-> Sign(n), d |-> 0]
    ELSE LET g == Gcd(Abs(n), Abs(d))
         IN  [n |-> Sign(d) * (n \div g), d |-> Sign(d) * (d \div g)]

Float(i) == [n |-> i, d |-> 1]
NaN == [n |-> 0, d |-> 0]
Inf == [n |-> 1, d |-> 0]

\* pd.isna, Series.isna
isna(x) == x = NaN

\* x > y, x < y, x >= y, x <= y: false as soon as one side is NaN
Gt(x, y) ==
    /\ ~isna(x) /\ ~isna(y)
    /\ IF x.d = 0 /\ y.d = 0 THEN x.n > y.n ELSE x.n * y.d > y.n * x.d
Lt(x, y) == Gt(y, x)
Ge(x, y) == ~isna(x) /\ ~isna(y) /\ ~Gt(y, x)
Le(x, y) == Ge(y, x)

Neg(x) == [n |-> 0 - x.n, d |-> x.d]

Add(x, y) ==
    IF isna(x) \/ isna(y) THEN NaN
    ELSE IF x.d = 0 THEN (IF y.d = 0 /\ y.n # x.n THEN NaN ELSE x)
    ELSE IF y.d = 0 THEN y
    ELSE LET g == Gcd(x.d, y.d)
         IN  Frac(x.n * (y.d \div g) + y.n * (x.d \div g), (x.d \div g) * y.d)

Sub(x, y) == Add(x, Neg(y))

Mul(x, y) ==
    IF isna(x) \/ isna(y) THEN NaN
    ELSE IF x.d = 0 \/ y.d = 0 THEN Frac(Sign(x.n) * Sign(y.n), 0)
    ELSE LET g1 == Gcd(Abs(x.n), y.d)
             g2 == Gcd(Abs(y.n), x.d)
         IN  Frac((x.n \div g1) * (y.n \div g2), (x.d \div g2) * (y.d \div g1))

\* 1/y: 1/0 is inf, 1/inf is 0
Recip(y) ==
    IF isna(y) THEN NaN
    ELSE IF y.d = 0 THEN Float(0)
    ELSE Frac(y.d, y.n)

\* x / y of two float64: x/0 is +-inf, 0/0 and inf/inf are NaN
Div(x, y) == Mul(x, Recip(y))

\* np.abs
FAbs(x) == [n |-> Abs(x.n), d |-> x.d]

\* round(x, 2): to the nearest hundredth, ties to the even hundredth; NaN and
\* the infinities come back as they are
round2(x) ==
    IF x.d = 0 THEN x
    ELSE LET m == x.n * 100
             q == m \div x.d
             r == m - q * x.d
             up == 2 * r > x.d \/ (2 * r = x.d /\ q % 2 = 1)
         IN  Frac(IF up THEN q + 1 ELSE q, 100)

(***************************************************************************)
(* pandas                                                                  *)
(*                                                                         *)
(* A DataFrame is its index (the candles' timestamps, oldest first as      *)
(* fetched), the set of its column names and one Series per column; a      *)
(* Series is a sequence of floats in the order of the index.               *)
(***************************************************************************)
len(df) == Len(df.index)

\* df[c]
Column(df, c) == df.data[c]

\* df.iloc[-1]
Latest(df) == [c \in df.columns |-> df.data[c][len(df)]]

\* s.iloc[-k]
FromEnd(s, k) == s[Len(s) - k + 1]

\* s.tail(k)
tail(s, k) == IF Len(s) <= k THEN s ELSE SubSeq(s, Len(s) - k + 1, Len(s))

\* s.dropna()
dropna(s) == SelectSeq(s, LAMBDA x : ~isna(x))

\* d[k] = v on a dict
Put(d, k, v) == [x \in DOMAIN d \cup {k} |-> IF x = k THEN v ELSE d[x]]

(***************************************************************************)
(* SnapshotExporter._add_indicator_signals                                 *)
(*                                                                         *)
(* One operator per block of the method, each taking the coin's dict as    *)
(* the block finds it and giving it back as the block leaves it.           *)
(***************************************************************************)
\* Mutant: the RSI bounds taken inclusive
AddRsiInclusive(coin_data, df, latest) ==
    IF "rsi_14" \in df.columns /\ ~isna(latest["rsi_14"])
    THEN LET rsi_val == latest["rsi_14"]
         IN  Put(Put(coin_data, "rsi_14", rsi_val), "rsi_state",
                 IF Ge(rsi_val, Float(70)) THEN "overbought"
                 ELSE IF Le(rsi_val, Float(30)) THEN "oversold"
                 ELSE "neutral")
    ELSE coin_data

AddRsi(coin_data, df, latest) ==
    IF "rsi_14" \in df.columns /\ ~isna(latest["rsi_14"])
    THEN LET rsi_val == latest["rsi_14"]
         IN  Put(Put(coin_data, "rsi_14", rsi_val), "rsi_state",
                 IF Gt(rsi_val, Float(70)) THEN "overbought"
                 ELSE IF Lt(rsi_val, Float(30)) THEN "oversold"
                 ELSE "neutral")
    ELSE coin_data

\* Mutant: a cross needs the previous value strictly on the other side
AddMacdStrict(coin_data, df, latest) ==
    IF "macd_histogram" \in df.columns /\ ~isna(latest["macd_histogram"])
    THEN LET macd_hist == latest["macd_histogram"]
             prev_hist == FromEnd(Column(df, "macd_histogram"), 2)
         IN  Put(Put(coin_data, "macd_hist", macd_hist), "macd_state",
                 IF len(df) >= 2
                 THEN IF ~isna(prev_hist)
                      THEN IF Gt(macd_hist, Float(0)) /\ Lt(prev_hist, Float(0))
                           THEN "bullish_cross"
                           ELSE IF Lt(macd_hist, Float(0)) /\ Gt(prev_hist, Float(0))
                           THEN "bearish_cross"
                           ELSE "neutral"
                      ELSE "neutral"
                 ELSE "neutral")
    ELSE coin_data

AddMacd(coin_data, df, latest) ==
    IF "macd_histogram" \in df.columns /\ ~isna(latest["macd_histogram"])
    THEN LET macd_hist == latest["macd_histogram"]
             prev_hist == FromEnd(Column(df, "macd_histogram"), 2)
         IN  Put(Put(coin_data, "macd_hist", macd_hist), "macd_state",
                 IF len(df) >= 2
                 THEN IF ~isna(prev_hist)
                      THEN IF Gt(macd_hist, Float(0)) /\ Le(prev_hist, Float(0))
                           THEN "bullish_cross"
                           ELSE IF Lt(macd_hist, Float(0)) /\ Ge(prev_hist, Float(0))
                           THEN "bearish_cross"
                           ELSE "neutral"
                      ELSE "neutral"
                 ELSE "neutral")
    ELSE coin_data

\* Mutant: the second emptiness test left out
AddEmaCrossUnchecked(coin_data, df, latest) ==
    IF "ema_50" \in df.columns /\ "ema_200" \in df.columns
    THEN IF ~isna(latest["ema_50"])
         THEN Put(coin_data, "ema_50_200",
                  IF Gt(latest["ema_50"], latest["ema_200"]) THEN "above" ELSE "below")
         ELSE coin_data
    ELSE coin_data

AddEmaCross(coin_data, df, latest) ==
    IF "ema_50" \in df.columns /\ "ema_200" \in df.columns
    THEN IF ~isna(latest["ema_50"]) /\ ~isna(latest["ema_200"])
         THEN Put(coin_data, "ema_50_200",
                  IF Gt(latest["ema_50"], latest["ema_200"]) THEN "above" ELSE "below")
         ELSE coin_data
    ELSE coin_data

AddBollinger(coin_data, df, latest) ==
    IF "bb_percent_b" \in df.columns /\ ~isna(latest["bb_percent_b"])
    THEN LET bb_pct == latest["bb_percent_b"]
         IN  Put(Put(coin_data, "bb_percent_b", bb_pct), "bb_state",
                 IF Gt(bb_pct, Float(1)) THEN "above_band"
                 ELSE IF Lt(bb_pct, Float(0)) THEN "below_band"
                 ELSE "inside")
    ELSE coin_data

AddAdx(coin_data, df, latest) ==
    IF "adx_14" \in df.columns /\ ~isna(latest["adx_14"])
    THEN LET adx_val == latest["adx_14"]
         IN  Put(Put(coin_data, "adx_14", adx_val), "trend_strength",
                 IF Gt(adx_val, Float(25)) THEN "strong" ELSE "weak")
    ELSE coin_data

\* float(latest['atr_14']) / float(latest['close']) divides two Python floats:
\* a zero close raises
AtrRaises(df, latest) ==
    /\ "atr_14" \in df.columns /\ ~isna(latest["atr_14"])
    /\ latest["close"] = Float(0)

AddAtrPct(coin_data, df, latest) ==
    IF "atr_14" \in df.columns /\ ~isna(latest["atr_14"])
    THEN Put(coin_data, "atr_pct",
             round2(Mul(Div(latest["atr_14"], latest["close"]), Float(100))))
    ELSE coin_data

\* Mutant: the trend taken on frames of any length
AddObvTrendAnyLength(coin_data, df, latest) ==
    IF "obv" \in df.columns
    THEN LET recent_obv == dropna(tail(Column(df, "obv"), 5))
         IN  IF Len(recent_obv) >= 2
             THEN Put(coin_data, "obv_trend",
                      IF Gt(FromEnd(recent_obv, 1), recent_obv[1]) THEN "up"
                      ELSE IF Lt(FromEnd(recent_obv, 1), recent_obv[1]) THEN "down"
                      ELSE "flat")
             ELSE coin_data
    ELSE coin_data

AddObvTrend(coin_data, df, latest) ==
    IF "obv" \in df.columns /\ len(df) >= 5
    THEN LET recent_obv == dropna(tail(Column(df, "obv"), 5))
         IN  IF Len(recent_obv) >= 2
             THEN Put(coin_data, "obv_trend",
                      IF Gt(FromEnd(recent_obv, 1), recent_obv[1]) THEN "up"
                      ELSE IF Lt(FromEnd(recent_obv, 1), recent_obv[1]) THEN "down"
                      ELSE "flat")
             ELSE coin_data
    ELSE coin_data

\* The method: the blocks in order on the same dict.  What it leaves is the
\* dict and the exception that ended it, if any ("no": it returned).
_add_indicator_signals(coin_data, df, latest) ==
    LET rsi == AddRsi(coin_data, df, latest)
        macd == AddMacd(rsi, df, latest)
        ema == AddEmaCross(macd, df, latest)
        bb == AddBollinger(ema, df, latest)
        adx == AddAdx(bb, df, latest)
    IN  IF AtrRaises(df, latest)
        THEN [raised |-> "ZeroDivisionError", coin_data |-> adx]
        ELSE [raised |-> "no",
              coin_data |-> AddObvTrend(AddAtrPct(adx, df, latest), df, latest)]

(***************************************************************************)
(* A direct call of the signal classifier                                  *)
(*                                                                         *)
(* The frames: every indicator column that the classifier reads is absent, *)
(* undefined in the latest row, or filled; the RSI, the last two MACD      *)
(* histogram values and the last five OBV values range over sets that      *)
(* straddle the classifier's thresholds.  _build_coins_section skips empty *)
(* frames and passes the last row as `latest`.                             *)
(***************************************************************************)
MaxRows == 6

SignalColumns ==
    {"rsi_14", "macd_histogram", "ema_50", "ema_200", "bb_percent_b", "adx_14",
     "atr_14", "obv"}

\* Two fillings of the trailing rows of every column, newest value last
TypicalA ==
    [rsi_14 |-> <<Float(50)>>, macd_histogram |-> <<Frac(0 - 1, 10), Frac(3, 10)>>,
     ema_50 |-> <<Float(3)>>, ema_200 |-> <<Float(2)>>,
     bb_percent_b |-> <<Frac(1, 2)>>, adx_14 |-> <<Float(30)>>,
     atr_14 |-> <<Frac(1, 8)>>,
     obv |-> <<Float(1), Float(2), Float(2), Float(1), Float(3)>>]

TypicalB ==
    [rsi_14 |-> <<Float(80)>>, macd_histogram |-> <<Frac(1, 10), Frac(0 - 3, 10)>>,
     ema_50 |-> <<Float(1)>>, ema_200 |-> <<Float(2)>>,
     bb_percent_b |-> <<Frac(3, 2)>>, adx_14 |-> <<Float(20)>>,
     atr_14 |-> <<Frac(1, 3)>>,
     obv |-> <<Float(3), Float(2), Float(2), Float(1), Float(1)>>]

\* The frame of n rows with the columns `columns` and close, whose column c
\* ends with the values tails[c] (cut to n rows) and holds 1.0 before them
Frame(n, columns, tails) ==
    [index |-> [i \in 1 .. n |-> i],
     columns |-> columns \cup {"close"},
     data |-> [c \in columns \cup {"close"} |->
                  [i \in 1 .. n |->
                      IF c = "close" THEN Float(2)
                      ELSE IF n - i < Len(tails[c])
                           THEN tails[c][Len(tails[c]) - (n - i)]
                           ELSE Float(1)]]]

\* tails with the newest value of every column of `undefined` made NaN
Undefine(tails, undefined) ==
    [c \in DOMAIN tails |->
        IF c \in undefined THEN [tails[c] EXCEPT ![Len(tails[c])] = NaN] ELSE tails[c]]

RsiValues == {NaN, Frac(299, 10), Float(30), Float(50), Float(70), Frac(712, 10), Inf}
MacdValues == {NaN, Frac(0 - 1, 2), Frac(0 - 1, 10), Float(0), Frac(3, 10)}
ObvValues == {NaN, Float(1), Float(2)}

\* The arguments of a call: the frame, kept as its row count, its indicator
\* columns and the trailing values of each
SignalCall(n, columns, tails) ==
    [fn |-> "_add_indicator_signals", n |-> n, columns |-> columns, tails |-> tails]

\* df of the call
SignalDf == Frame(cargs.n, cargs.columns, cargs.tails)

\* The dict as _build_coins_section hands it over
CoinDataBefore(df) == [price |-> Latest(df)["close"], price_source |-> "candle_close"]

SignalsInit ==
    /\ pc = "ready"
    /\ \/ \E n \in 1 .. MaxRows, v \in RsiValues :
              cargs = SignalCall(n, SignalColumns, [TypicalA EXCEPT !["rsi_14"] = <<v>>])
       \/ \E n \in 1 .. MaxRows, p \in MacdValues, h \in MacdValues :
              cargs = SignalCall(n, SignalColumns,
                                 [TypicalA EXCEPT !["macd_histogram"] = <<Frac(0 - 1, 2), p, h>>])
       \/ \E n \in 1 .. MaxRows, w \in [1 .. 5 -> ObvValues] :
              cargs = SignalCall(n, SignalColumns, [TypicalA EXCEPT !["obv"] = w])
       \/ \E n \in 1 .. MaxRows, absent \in SUBSET SignalColumns,
             t \in {TypicalA, TypicalB} :
              \E undefined \in SUBSET (SignalColumns \ absent) :
                  cargs = SignalCall(n, SignalColumns \ absent, Undefine(t, undefined))
    /\ cret = PyNone
    /\ fargs = PyNone /\ fexisting = PyNone /\ fret = PyNone
    /\ snapshot = PyNone
    /\ RunsIdle

SignalsCall ==
    /\ pc = "ready"
    /\ cret' = _add_indicator_signals(CoinDataBefore(SignalDf), SignalDf, Latest(SignalDf))
    /\ pc' = "done"
    /\ UNCHANGED <<cargs, fargs, fexisting, fret, snapshot, runVars>>

SignalsNext == SignalsCall

SpecSignals == SignalsInit /\ [][SignalsNext]_vars

(***************************************************************************)
(* pandas Series operations used by the indicators                         *)
(***************************************************************************)
\* s.shift(1)
shift(s) == IF Len(s) = 0 THEN s ELSE <<NaN>> \o SubSeq(s, 1, Len(s) - 1)

\* a - b, a + b, a / b, a * b of two Series on the same index
SeriesSub(a, b) == [i \in 1 .. Len(a) |-> Sub(a[i], b[i])]
SeriesAdd(a, b) == [i \in 1 .. Len(a) |-> Add(a[i], b[i])]
SeriesDiv(a, b) == [i \in 1 .. Len(a) |-> Div(a[i], b[i])]
\* s * k, np.abs(s), -s
SeriesScale(s, k) == [i \in 1 .. Len(s) |-> Mul(s[i], k)]
SeriesAbs(s) == [i \in 1 .. Len(s) |-> FAbs(s[i])]
SeriesNeg(s) == [i \in 1 .. Len(s) |-> Neg(s[i])]

\* s.diff()
diff(s) == SeriesSub(s, shift(s))

\* s.cumsum(): NaN is skipped and stays NaN in place
RECURSIVE CumSumTo(_, _)
CumSumTo(s, i) ==
    IF i = 0 THEN Float(0)
    ELSE IF isna(s[i]) THEN CumSumTo(s, i - 1)
    ELSE Add(CumSumTo(s, i - 1), s[i])
cumsum(s) == [i \in 1 .. Len(s) |-> IF isna(s[i]) THEN NaN ELSE CumSumTo(s, i)]

\* pd.concat([a, b, c], axis=1).max(axis=1): the largest value of each row
\* that is not NaN, NaN where all three are
Max2(x, y) == IF isna(x) THEN y ELSE IF isna(y) THEN x ELSE IF Gt(y, x) THEN y ELSE x
RowMax(a, b, c) == [i \in 1 .. Len(a) |-> Max2(Max2(a[i], b[i]), c[i])]

\* s.rolling(window=period).mean(): min_periods is the window, so the mean
\* is there only where the window is full of valid values
RECURSIVE SumOver(_, _, _)
SumOver(s, from, to) == IF from > to THEN Float(0) ELSE Add(s[from], SumOver(s, from + 1, to))

\* Mutant: min_periods=1
rolling_mean_min1(s, period) ==
    [i \in 1 .. Len(s) |->
        LET from == IF i - period + 1 < 1 THEN 1 ELSE i - period + 1
        IN  Div(SumOver(s, from, i), Float(i - from + 1))]

rolling_mean(s, period) ==
    [i \in 1 .. Len(s) |->
        IF i < period THEN NaN
        ELSE Div(SumOver(s, i - period + 1, i), Float(period))]

\* floor of the square root of a natural number below 2^31, by bisection:
\* lo * lo <= m < hi * hi
RECURSIVE IsqrtIn(_, _, _)
IsqrtIn(m, lo, hi) ==
    IF hi - lo <= 1 THEN lo
    ELSE IF ((lo + hi) \div 2) * ((lo + hi) \div 2) > m
         THEN IsqrtIn(m, lo, (lo + hi) \div 2)
         ELSE IsqrtIn(m, (lo + hi) \div 2, hi)

Isqrt(m) == IsqrtIn(m, 0, IF m + 1 < 46341 THEN m + 1 ELSE 46341)

\* The square root of a float, cut to thousandths
Sqrt(x) ==
    IF isna(x) \/ x.n < 0 THEN NaN
    ELSE IF x.d = 0 THEN x
    ELSE Frac(Isqrt((x.n * 1000 * 1000) \div x.d), 1000)

\* s.rolling(window=period).std(): the sample standard deviation (ddof=1) of
\* each full window
rolling_std(s, period) ==
    [i \in 1 .. Len(s) |->
        IF i < period THEN NaN
        ELSE LET mean == Div(SumOver(s, i - period + 1, i), Float(period))
                 sq == [j \in 1 .. Len(s) |-> Mul(Sub(s[j], mean), Sub(s[j], mean))]
             IN  Sqrt(Div(SumOver(sq, i - period + 1, i), Float(period - 1)))]

\* s.ewm(alpha=alpha, adjust=False).mean(), as pandas' ewm loop computes it:
\* the average starts at the first valid value, a NaN repeats the previous
\* average and makes the older weight decay once more
RECURSIVE EwmState(_, _, _)
EwmState(s, alpha, i) ==
    IF i = 1 THEN [weighted |-> s[1], old_wt |-> Float(1)]
    ELSE LET before == EwmState(s, alpha, i - 1)
             cur == s[i]
             old_wt == Mul(before.old_wt, Sub(Float(1), alpha))
         IN  IF isna(before.weighted)
             THEN [weighted |-> cur, old_wt |-> before.old_wt]
             ELSE IF isna(cur)
             THEN [weighted |-> before.weighted, old_wt |-> old_wt]
             ELSE IF before.weighted = cur
             THEN [weighted |-> cur, old_wt |-> Float(1)]
             ELSE [weighted |-> Div(Add(Mul(old_wt, before.weighted), Mul(alpha, cur)),
                                    Add(old_wt, alpha)),
                   old_wt |-> Float(1)]
ewm_mean(s, alpha) == [i \in 1 .. Len(s) |-> EwmState(s, alpha, i).weighted]

\* ewm(span=period): alpha = 2 / (period + 1)
SpanAlpha(period) == Frac(2, period + 1)

\* s.where(cond, 0) with cond = s > 0 and s < 0
where_positive(s) == [i \in 1 .. Len(s) |-> IF Gt(s[i], Float(0)) THEN s[i] ELSE Float(0)]
where_negative(s) == [i \in 1 .. Len(s) |-> IF Lt(s[i], Float(0)) THEN s[i] ELSE Float(0)]

(***************************************************************************)
(* The indicators (src/src/indicators)                                     *)
(***************************************************************************)
\* result[name] = s: the Series is laid on the frame's index
AddColumn(df, name, s) ==
    [index |-> df.index,
     columns |-> df.columns \cup {name},
     data |-> [c \in df.columns \cup {name} |->
                  IF c = name
                  THEN [i \in 1 .. len(df) |-> IF i <= Len(s) THEN s[i] ELSE NaN]
                  ELSE df.data[c]]]

\* ema.py
calculate_ema(data, period) == ewm_mean(data, SpanAlpha(period))

calculate_multiple_emas(df) ==
    LET close == Column(df, "close")
    IN  AddColumn(AddColumn(AddColumn(df,
            "ema_20", calculate_ema(close, 20)),
            "ema_50", calculate_ema(close, 50)),
            "ema_200", calculate_ema(close, 200))

\* sma.py
\* Mutant: the warm-up rows dropped from the result
calculate_sma_dropna(data, period) == dropna(rolling_mean(data, period))

calculate_sma(data, period) == rolling_mean(data, period)

calculate_multiple_smas(df) ==
    LET close == Column(df, "close")
    IN  AddColumn(AddColumn(AddColumn(df,
            "sma_20", calculate_sma(close, 20)),
            "sma_50", calculate_sma(close, 50)),
            "sma_200", calculate_sma(close, 200))

\* rsi.py
\* Mutant: an undefined ratio of the averages taken as 0
calculate_rsi_fillna(data, period) ==
    LET delta == diff(data)
        gains == where_positive(delta)
        losses == SeriesNeg(where_negative(delta))
        avg_gains == ewm_mean(gains, Frac(1, period))
        avg_losses == ewm_mean(losses, Frac(1, period))
        rs == SeriesDiv(avg_gains, avg_losses)
    IN  [i \in 1 .. Len(rs) |->
            Sub(Float(100), Div(Float(100),
                Add(Float(1), IF isna(rs[i]) THEN Float(0) ELSE rs[i])))]

\* Mutant: the losses kept with their sign
calculate_rsi_signed_losses(data, period) ==
    LET delta == diff(data)
        gains == where_positive(delta)
        losses == where_negative(delta)
        avg_gains == ewm_mean(gains, Frac(1, period))
        avg_losses == ewm_mean(losses, Frac(1, period))
        rs == SeriesDiv(avg_gains, avg_losses)
    IN  [i \in 1 .. Len(rs) |->
            Sub(Float(100), Div(Float(100), Add(Float(1), rs[i])))]

calculate_rsi(data, period) ==
    LET delta == diff(data)
        gains == where_positive(delta)
        losses == SeriesNeg(where_negative(delta))
        avg_gains == ewm_mean(gains, Frac(1, period))
        avg_losses == ewm_mean(losses, Frac(1, period))
        rs == SeriesDiv(avg_gains, avg_losses)
    IN  [i \in 1 .. Len(rs) |->
            Sub(Float(100), Div(Float(100), Add(Float(1), rs[i])))]

add_rsi_to_dataframe(df) == AddColumn(df, "rsi_14", calculate_rsi(Column(df, "close"), 14))

\* macd.py
\* lines 24-34: the signal line and the histogram of a MACD line
MacdOf(macd_line, signal_line) ==
    [macd |-> macd_line, macd_signal |-> signal_line,
     macd_histogram |-> SeriesSub(macd_line, signal_line)]

MacdFrom(macd_line, signal_period) ==
    MacdOf(macd_line, ewm_mean(macd_line, SpanAlpha(signal_period)))

calculate_macd(data, fast_period, slow_period, signal_period) ==
    MacdFrom(SeriesSub(ewm_mean(data, SpanAlpha(fast_period)),
                       ewm_mean(data, SpanAlpha(slow_period))),
             signal_period)

AddMacdColumns(df, macd_data) ==
    AddColumn(AddColumn(AddColumn(df,
        "macd", macd_data.macd),
        "macd_signal", macd_data.macd_signal),
        "macd_histogram", macd_data.macd_histogram)

add_macd_to_dataframe(df) ==
    AddMacdColumns(df, calculate_macd(Column(df, "close"), 12, 26, 9))

\* bollinger.py
\* lines 26-38: %B, the bandwidth and the frame of the five Series
BandsOf(data, middle_band, upper_band, lower_band) ==
    [bb_upper |-> upper_band, bb_middle |-> middle_band, bb_lower |-> lower_band,
     bb_percent_b |-> SeriesDiv(SeriesSub(data, lower_band),
                                SeriesSub(upper_band, lower_band)),
     bb_bandwidth |-> SeriesDiv(SeriesSub(upper_band, lower_band), middle_band)]

\* lines 22-24: the bands around the middle band
BandsFrom(data, middle_band, std, std_dev) ==
    BandsOf(data, middle_band,
            SeriesAdd(middle_band, SeriesScale(std, std_dev)),
            SeriesSub(middle_band, SeriesScale(std, std_dev)))

calculate_bollinger_bands(data, period, std_dev) ==
    BandsFrom(data, rolling_mean(data, period), rolling_std(data, period), std_dev)

AddBollingerColumns(df, bb_data) ==
    AddColumn(AddColumn(AddColumn(AddColumn(AddColumn(df,
        "bb_upper", bb_data.bb_upper),
        "bb_middle", bb_data.bb_middle),
        "bb_lower", bb_data.bb_lower),
        "bb_percent_b", bb_data.bb_percent_b),
        "bb_bandwidth", bb_data.bb_bandwidth)

add_bollinger_bands_to_dataframe(df) ==
    AddBollingerColumns(df, calculate_bollinger_bands(Column(df, "close"), 20, Float(2)))

\* atr.py
calculate_true_range(df) ==
    LET hl == SeriesSub(Column(df, "high"), Column(df, "low"))
        hc == SeriesAbs(SeriesSub(Column(df, "high"), shift(Column(df, "close"))))
        lc == SeriesAbs(SeriesSub(Column(df, "low"), shift(Column(df, "close"))))
    IN  RowMax(hl, hc, lc)

calculate_atr(df, period) == ewm_mean(calculate_true_range(df), SpanAlpha(period))

add_atr_to_dataframe(df) ==
    AddColumn(AddColumn(df, "atr_14", calculate_atr(df, 14)),
              "true_range", calculate_true_range(df))

\* adx.py
calculate_directional_movement(df) ==
    LET high_diff == diff(Column(df, "high"))
        low_diff == diff(Column(df, "low"))
    IN  [plus_dm |-> [i \in 1 .. len(df) |->
                         IF Gt(high_diff[i], low_diff[i]) /\ Gt(high_diff[i], Float(0))
                         THEN high_diff[i] ELSE Float(0)],
         minus_dm |-> [i \in 1 .. len(df) |->
                          IF Gt(low_diff[i], high_diff[i]) /\ Gt(low_diff[i], Float(0))
                          THEN low_diff[i] ELSE Float(0)]]

\* lines 55-66: DX, ADX and the frame of the four Series
AdxOf(plus_di, minus_di, dx, period) ==
    [adx |-> ewm_mean(dx, SpanAlpha(period)), plus_di |-> plus_di,
     minus_di |-> minus_di, dx |-> dx]

AdxFromDi(plus_di, minus_di, period) ==
    AdxOf(plus_di, minus_di,
          SeriesDiv(SeriesScale(SeriesAbs(SeriesSub(plus_di, minus_di)), Float(100)),
                    SeriesAdd(plus_di, minus_di)),
          period)

\* lines 51-53: the directional indicators
AdxFromSmooth(tr_smooth, plus_dm_smooth, minus_dm_smooth, period) ==
    AdxFromDi(SeriesScale(SeriesDiv(plus_dm_smooth, tr_smooth), Float(100)),
              SeriesScale(SeriesDiv(minus_dm_smooth, tr_smooth), Float(100)),
              period)

\* lines 46-49: the smoothed values
AdxFromDm(tr, dm_data, period) ==
    AdxFromSmooth(ewm_mean(tr, SpanAlpha(period)),
                  ewm_mean(dm_data.plus_dm, SpanAlpha(period)),
                  ewm_mean(dm_data.minus_dm, SpanAlpha(period)),
                  period)

calculate_adx(df, period) ==
    AdxFromDm(calculate_true_range(df), calculate_directional_movement(df), period)

AddAdxColumns(df, adx_data) ==
    AddColumn(AddColumn(AddColumn(AddColumn(df,
        "adx_14", adx_data.adx),
        "plus_di_14", adx_data.plus_di),
        "minus_di_14", adx_data.minus_di),
        "dx_14", adx_data.dx)

add_adx_to_dataframe(df) == AddAdxColumns(df, calculate_adx(df, 14))

\* obv.py
\* Mutant: the sum started at the first candle's volume
calculate_obv_from_volume(df) ==
    LET price_change == diff(Column(df, "close"))
        volume == Column(df, "volume")
    IN  cumsum([i \in 1 .. len(df) |->
                   IF Gt(price_change[i], Float(0)) \/ i = 1 THEN volume[i]
                   ELSE IF Lt(price_change[i], Float(0)) THEN Neg(volume[i])
                   ELSE Float(0)])

calculate_obv(df) ==
    LET price_change == diff(Column(df, "close"))
        volume == Column(df, "volume")
    IN  cumsum([i \in 1 .. len(df) |->
                   IF Gt(price_change[i], Float(0)) THEN volume[i]
                   ELSE IF Lt(price_change[i], Float(0)) THEN Neg(volume[i])
                   ELSE Float(0)])

calculate_obv_ema(df, period) == ewm_mean(calculate_obv(df), SpanAlpha(period))

add_obv_to_dataframe(df) ==
    AddColumn(AddColumn(AddColumn(df,
        "obv", calculate_obv(df)),
        "obv_ema_20", calculate_obv_ema(df, 20)),
        "volume_ma_20", rolling_mean(Column(df, "volume"), 20))

(***************************************************************************)
(* calculate_all_indicators (src/src/indicators/__init__.py)               *)
(***************************************************************************)
Recognized == {"ema", "sma", "rsi", "macd", "bollinger", "atr", "adx", "obv"}

\* The columns that the indicator's function reads with df[...]: a column
\* that is not there raises KeyError
Reads(indicator) ==
    CASE indicator \in {"ema", "sma", "rsi", "macd", "bollinger"} -> {"close"}
      [] indicator \in {"atr", "adx"} -> {"high", "low", "close"}
      [] indicator = "obv" -> {"close", "volume"}

Apply(indicator, result) ==
    CASE indicator = "ema" -> calculate_multiple_emas(result)
      [] indicator = "sma" -> calculate_multiple_smas(result)
      [] indicator = "rsi" -> add_rsi_to_dataframe(result)
      [] indicator = "macd" -> add_macd_to_dataframe(result)
      [] indicator = "bollinger" -> add_bollinger_bands_to_dataframe(result)
      [] indicator = "atr" -> add_atr_to_dataframe(result)
      [] indicator = "adx" -> add_adx_to_dataframe(result)
      [] indicator = "obv" -> add_obv_to_dataframe(result)

\* Mutant: an unknown name ends the batch
LoopBodyRejecting(state, indicator) ==
    IF state.raised # "no" THEN state
    ELSE IF indicator \in Recognized
    THEN IF Reads(indicator) \subseteq state.result.columns
         THEN [state EXCEPT !.result = Apply(indicator, @)]
         ELSE [state EXCEPT !.raised = "KeyError"]
    ELSE [state EXCEPT !.raised = "ValueError"]

\* One turn of the loop over the requested names; nothing runs after an
\* exception
LoopBody(state, indicator) ==
    IF state.raised # "no" THEN state
    ELSE IF indicator \in Recognized
    THEN IF Reads(indicator) \subseteq state.result.columns
         THEN [state EXCEPT !.result = Apply(indicator, @)]
         ELSE [state EXCEPT !.raised = "KeyError"]
    ELSE [state EXCEPT !.printed = Append(@, indicator)]

RECURSIVE Loop(_, _, _)
Loop(state, indicators, k) ==
    IF k > Len(indicators) THEN state
    ELSE Loop(LoopBody(state, indicators[k]), indicators, k + 1)

\* What the call leaves: the exception ("no": it returned), the frame it
\* returned (None when it raised) and the warnings it printed
calculate_all_indicators(df, indicators) ==
    LET end == Loop([raised |-> "no", result |-> df, printed |-> <<>>], indicators, 1)
    IN  [raised |-> end.raised,
         returned |-> IF end.raised = "no" THEN end.result ELSE PyNone,
         printed |-> end.printed]

(***************************************************************************)
(* Direct calls of the indicators                                          *)
(***************************************************************************)
MaxLen == 4
MaxPeriod == 4
MaxCandles == 3
MaxBatch == 2
MaxList == 3

\* Close prices of a Series, some undefined
CloseSeries == UNION {[1 .. n -> {NaN, Float(1), Float(2), Float(4)}] : n \in 0 .. MaxLen}

OHLCV == {"open", "high", "low", "close", "volume"}

\* Candles: low <= open = close <= high
Priced == {Float(1), Float(2), Float(4)}
Candles ==
    {c \in [open : Priced, high : Priced, low : Priced, close : Priced, volume : {Float(3)}] :
        Le(c.low, c.close) /\ Le(c.close, c.high) /\ c.open = c.close}
\* Candles for the volume indicators
Traded ==
    [open : {Float(1)}, high : {Float(4)}, low : {Float(1)}, close : Priced,
     volume : {Float(0), Float(3), Float(5)}]
\* Candles for the batch
Few ==
    {[open |-> Float(1), high |-> Float(2), low |-> Float(1), close |-> Float(1),
      volume |-> Float(3)],
     [open |-> Float(4), high |-> Float(4), low |-> Float(2), close |-> Float(4),
      volume |-> Float(5)],
     [open |-> Float(2), high |-> Float(2), low |-> Float(2), close |-> Float(2),
      volume |-> Float(0)]}

\* The frame of the candles `rows` under the timestamps `index`
CandleFrame(index, rows, columns) ==
    [index |-> index, columns |-> columns,
     data |-> [c \in columns |-> [i \in 1 .. Len(rows) |-> rows[i][c]]]]

FramesOf(candles, longest) ==
    {CandleFrame([i \in 1 .. Len(rows) |-> i], rows, OHLCV) :
         rows \in UNION {[1 .. n -> candles] : n \in 0 .. longest}}

\* Timestamps that do not strictly increase: going back, or repeated
BadIndexes(n) ==
    IF n < 2 THEN {}
    ELSE {[i \in 1 .. n |-> n + 1 - i], [i \in 1 .. n |-> IF i = 1 THEN 1 ELSE i - 1]}

AllEight == <<"ema", "sma", "rsi", "macd", "bollinger", "atr", "adx", "obv">>
Insert(s, k, x) == SubSeq(s, 1, k) \o <<x>> \o SubSeq(s, k + 1, Len(s))

\* Requested lists: all eight with an unknown name anywhere, and every short
\* list of two known names and two unknown ones
IndicatorLists ==
    {AllEight} \cup {Insert(AllEight, k, "vwap") : k \in 0 .. Len(AllEight)}
    \cup UNION {[1 .. n -> {"sma", "atr", "vwap", "EMA"}] : n \in 0 .. MaxList}

Idle ==
    /\ fargs = PyNone /\ fexisting = PyNone /\ fret = PyNone
    /\ snapshot = PyNone
    /\ RunsIdle

IndicatorsInit ==
    /\ pc = "ready"
    /\ cret = PyNone
    /\ Idle
    /\ \/ \E df \in FramesOf(Few, MaxBatch), indicators \in IndicatorLists :
              cargs = [fn |-> "calculate_all_indicators", df |-> df,
                       indicators |-> indicators]
       \/ \E df \in FramesOf(Few, MaxBatch), gone \in SUBSET {"open", "high", "volume"},
             indicators \in {<<>>, <<"sma">>, <<"sma", "atr">>, <<"obv", "vwap">>, AllEight} :
              \E index \in BadIndexes(len(df)) \cup {df.index} :
                  cargs = [fn |-> "calculate_all_indicators",
                           df |-> [index |-> index, columns |-> OHLCV \ gone,
                                   data |-> [c \in OHLCV \ gone |-> df.data[c]]],
                           indicators |-> indicators]
       \/ \E data \in CloseSeries, period \in 1 .. MaxPeriod,
             fn \in {"calculate_sma", "calculate_ema", "calculate_rsi"} :
              cargs = [fn |-> fn, data |-> data, period |-> period]
       \/ \E df \in FramesOf(Candles, MaxCandles), period \in 1 .. MaxPeriod :
              cargs = [fn |-> "calculate_atr", df |-> df, period |-> period]
       \/ \E df \in FramesOf(Candles, MaxCandles) :
              cargs = [fn |-> "calculate_true_range", df |-> df]
       \/ \E df \in FramesOf(Traded, MaxCandles) :
              cargs = [fn |-> "calculate_obv", df |-> df]

Returns(value) ==
    /\ pc = "ready"
    /\ cret' = value
    /\ pc' = "done"
    /\ UNCHANGED <<cargs, fargs, fexisting, fret, snapshot, runVars>>

AllIndicatorsCall ==
    /\ cargs.fn = "calculate_all_indicators"
    /\ Returns(calculate_all_indicators(cargs.df, cargs.indicators))

SmaCall ==
    /\ cargs.fn = "calculate_sma"
    /\ Returns([raised |-> "no", returned |-> calculate_sma(cargs.data, cargs.period)])

EmaCall ==
    /\ cargs.fn = "calculate_ema"
    /\ Returns([raised |-> "no", returned |-> calculate_ema(cargs.data, cargs.period)])

RsiCall ==
    /\ cargs.fn = "calculate_rsi"
    /\ Returns([raised |-> "no", returned |-> calculate_rsi(cargs.data, cargs.period)])

AtrCall ==
    /\ cargs.fn = "calculate_atr"
    /\ Returns([raised |-> "no", returned |-> calculate_atr(cargs.df, cargs.period)])

TrueRangeCall ==
    /\ cargs.fn = "calculate_true_range"
    /\ Returns([raised |-> "no", returned |-> calculate_true_range(cargs.df)])

ObvCall ==
    /\ cargs.fn = "calculate_obv"
    /\ Returns([raised |-> "no", returned |-> calculate_obv(cargs.df)])

IndicatorsNext ==
    \/ AllIndicatorsCall
    \/ SmaCall
    \/ EmaCall
    \/ RsiCall
    \/ AtrCall
    \/ TrueRangeCall
    \/ ObvCall

SpecIndicators == IndicatorsInit /\ [][IndicatorsNext]_vars

(***************************************************************************)
(* Python's sorted                                                         *)
(*                                                                         *)
(* list.sort on fewer than 64 items: the items' keys are compared with <   *)
(* alone; the run that starts the list is found (and reversed if it        *)
(* descends strictly), and the rest is put in by binary insertion.         *)
(* reverse=True reverses the list before and after.  Items are the         *)
(* (coin, value) pairs of dict.items(), the key is the value.              *)
(***************************************************************************)
ISLT(x, y) == Lt(x.value, y.value)

Reversed(a) == [i \in 1 .. Len(a) |-> a[Len(a) - i + 1]]

\* count_run: the last row of the run that the first two items start
RECURSIVE RunEnd(_, _, _)
RunEnd(a, descending, i) ==
    IF i = Len(a) THEN i
    ELSE IF ISLT(a[i + 1], a[i]) = descending THEN RunEnd(a, descending, i + 1)
    ELSE i

\* binarysort: where the pivot goes among the sorted a[l .. r-1]
RECURSIVE BinarySearch(_, _, _, _)
BinarySearch(a, pivot, l, r) ==
    IF l >= r THEN l
    ELSE LET p == l + ((r - l) \div 2)
         IN  IF ISLT(pivot, a[p]) THEN BinarySearch(a, pivot, l, p)
             ELSE BinarySearch(a, pivot, p + 1, r)

InsertAt(a, start, l) ==
    [i \in 1 .. Len(a) |->
        IF i < l \/ i > start THEN a[i]
        ELSE IF i = l THEN a[start]
        ELSE a[i - 1]]

RECURSIVE binarysort(_, _)
binarysort(a, start) ==
    IF start > Len(a) THEN a
    ELSE binarysort(InsertAt(a, start, BinarySearch(a, a[start], 1, start)), start + 1)

WithRunReversed(a, n) ==
    [i \in 1 .. Len(a) |-> IF i <= n THEN a[n - i + 1] ELSE a[i]]

SortFrom(a, descending) ==
    binarysort(IF descending THEN WithRunReversed(a, RunEnd(a, TRUE, 2)) ELSE a,
               RunEnd(a, descending, 2) + 1)

list_sort(a) == IF Len(a) < 2 THEN a ELSE SortFrom(a, ISLT(a[2], a[1]))

sorted(items, reverse) ==
    IF reverse THEN Reversed(list_sort(Reversed(items))) ELSE list_sort(items)

(***************************************************************************)
(* SnapshotExporter._build_cross_coin_analysis and _build_coins_section    *)
(*                                                                         *)
(* results is a dict in insertion order: a sequence of [coin, df].         *)
(***************************************************************************)
\* Series.mean() and Series.std() (ddof=1); both skip NaN
mean(s) ==
    IF Len(dropna(s)) = 0 THEN NaN
    ELSE Div(SumOver(dropna(s), 1, Len(dropna(s))), Float(Len(dropna(s))))

SquaresAbout(v, m) == [j \in 1 .. Len(v) |-> Mul(Sub(v[j], m), Sub(v[j], m))]

std(s) ==
    IF Len(dropna(s)) < 2 THEN NaN
    ELSE Sqrt(Div(SumOver(SquaresAbout(dropna(s), mean(s)), 1, Len(dropna(s))),
                  Float(Len(dropna(s)) - 1)))

\* ((last - first) / first) * 100
PctFrom(last_close, first_close) ==
    Mul(Div(Sub(last_close, first_close), first_close), Float(100))

Perf24h(df) ==
    IF len(df) >= 24
    THEN PctFrom(FromEnd(Column(df, "close"), 1), FromEnd(Column(df, "close"), 24))
    ELSE PctFrom(FromEnd(Column(df, "close"), 1), Column(df, "close")[1])

VolatilityFrom(close_std, close_mean) ==
    IF Gt(close_mean, Float(0)) THEN Mul(Div(close_std, close_mean), Float(100))
    ELSE Float(0)

Volatility(df) == VolatilityFrom(std(Column(df, "close")), mean(Column(df, "close")))

\* the loop of lines 311-324: empty frames are passed over
NotEmpty(results) == SelectSeq(results, LAMBDA r : len(r.df) > 0)

ItemsOf(kept, Value(_)) ==
    [i \in 1 .. Len(kept) |-> [coin |-> kept[i].coin, value |-> Value(kept[i].df)]]

CoinsOf(items) == [i \in 1 .. Len(items) |-> items[i].coin]

VolumeAvg(df) == mean(Column(df, "volume"))

RankingsOf(kept) ==
    [top_momentum_24h |-> CoinsOf(sorted(ItemsOf(kept, Perf24h), TRUE)),
     top_volume |-> CoinsOf(sorted(ItemsOf(kept, VolumeAvg), TRUE)),
     lowest_volatility |-> CoinsOf(sorted(ItemsOf(kept, Volatility), FALSE))]

_build_cross_coin_analysis(results) == RankingsOf(NotEmpty(results))

\* lines 369-404: the percentage changes, from the markets data or else
\* from the candles
MarketKey(k) ==
    CASE k = "1h" -> "price_change_percentage_1h_in_currency"
      [] k = "24h" -> "price_change_percentage_24h_in_currency"
      [] k = "7d" -> "price_change_percentage_7d_in_currency"

PctFromMarket(market_data) ==
    [k \in {k \in {"1h", "24h", "7d"} : MarketKey(k) \in DOMAIN market_data} |->
        market_data[MarketKey(k)]]

PctFromCandles(df, current_price) ==
    LET close == Column(df, "close")
        ago == [k \in {"1h", "24h", "7d"} |->
                   IF k = "1h" THEN FromEnd(close, 2)
                   ELSE IF k = "24h"
                        THEN (IF len(df) >= 24 THEN FromEnd(close, 24) ELSE close[1])
                        ELSE (IF len(df) >= 168 THEN FromEnd(close, 168) ELSE NaN)]
    IN  [k \in {k \in {"1h", "24h", "7d"} : Gt(ago[k], Float(0))} |->
            Mul(Div(Sub(current_price, ago[k]), ago[k]), Float(100))]

PctChanges(df, market_data, current_price) ==
    IF DOMAIN PctFromMarket(market_data) = {} /\ len(df) >= 2
    THEN PctFromCandles(df, current_price)
    ELSE PctFromMarket(market_data)

\* lines 549-573
_build_history_arrays(df) ==
    [price_history |->
        [i \in 1 .. Len(tail(df.index, 12)) |->
            <<tail(df.index, 12)[i], tail(Column(df, "close"), 12)[i]>>],
     indicator_history |->
        [c \in {"rsi_14", "macd_histogram"} \cap df.columns |-> tail(Column(df, c), 12)]]

\* lines 348-366: the dict before the percentage changes
PricedCoin(df, market_data) ==
    IF "current_price" \in DOMAIN market_data /\ market_data["current_price"] # PyNone
    THEN [price |-> market_data["current_price"], price_source |-> "spot",
          price_timestamp |-> Get(market_data, "last_updated", PyNone)]
    ELSE [price |-> Latest(df)["close"], price_source |-> "candle_close",
          price_timestamp |-> Get(market_data, "last_updated", PyNone)]

WithPct(coin_data, pct_changes) ==
    IF DOMAIN pct_changes # {} THEN Put(coin_data, "pct_change", pct_changes) ELSE coin_data

WithHistory(signalled, df, include_history) ==
    IF signalled.raised = "no" /\ include_history
    THEN [signalled EXCEPT !.coin_data =
             Put(Put(@, "price_history", _build_history_arrays(df).price_history),
                 "indicator_history", _build_history_arrays(df).indicator_history)]
    ELSE signalled

CoinData(df, market_data, include_history) ==
    WithHistory(
        _add_indicator_signals(
            WithPct(PricedCoin(df, market_data),
                    PctChanges(df, market_data, PricedCoin(df, market_data).price)),
            df, Latest(df)),
        df, include_history)

\* the coins section, or the exception that the first failing coin raises
CoinsSectionOf(kept, markets_data, include_history) ==
    LET built == [i \in 1 .. Len(kept) |->
                     CoinData(kept[i].df, Get(markets_data, kept[i].coin, EmptyDict),
                              include_history)]
    IN  IF \E i \in 1 .. Len(kept) : built[i].raised # "no"
        THEN [raised |-> "ZeroDivisionError", coins_data |-> PyNone]
        ELSE [raised |-> "no",
              coins_data |-> [c \in {kept[i].coin : i \in 1 .. Len(kept)} |->
                                 built[CHOOSE i \in 1 .. Len(kept) : kept[i].coin = c].coin_data]]

_build_coins_section(results, markets_data, include_history) ==
    CoinsSectionOf(NotEmpty(results), markets_data, include_history)

(***************************************************************************)
(* Direct calls of the two section builders                                *)
(*                                                                         *)
(* The results hold up to MaxCoins coins in any order; each coin's frame   *)
(* is empty, a single candle, two candles (flat, rising, falling) or the   *)
(* LongRows candles of a frame longer than a day of hourly data.           *)
(***************************************************************************)
MaxCoins == 3
LongRows == 25

AllCoins == <<"ada", "btc", "eth", "sol">>
Coins == {AllCoins[i] : i \in 1 .. MaxCoins}

\* The closes of a frame, by shape
Closes ==
    [empty |-> <<>>,
     single |-> <<Float(2)>>,
     flat |-> <<Float(2), Float(2)>>,
     rising |-> <<Float(1), Float(2)>>,
     falling |-> <<Float(2), Float(1)>>,
     long |-> [i \in 1 .. LongRows |->
                  IF i = 1 THEN Float(4) ELSE IF i = LongRows THEN Float(2) ELSE Float(1)]]

Shapes == DOMAIN Closes
Volumes == {Float(3), Float(5)}

PriceFrame(shape, volume) ==
    [index |-> [i \in 1 .. Len(Closes[shape]) |-> i],
     columns |-> {"close", "volume"},
     data |-> [c \in {"close", "volume"} |->
                  IF c = "close" THEN Closes[shape]
                  ELSE [i \in 1 .. Len(Closes[shape]) |-> volume]]]

\* the orders in which the coins of a set can have been put into the dict
OrdersOf(S) ==
    {o \in [1 .. Cardinality(S) -> S] : \A i, j \in 1 .. Cardinality(S) : i # j => o[i] # o[j]}

\* results of the call: the frames by their descriptors
ResultsOf(order, shape, volume) ==
    [i \in 1 .. Len(order) |->
        [coin |-> order[i], df |-> PriceFrame(shape[order[i]], volume[order[i]])]]

CallResults == ResultsOf(cargs.order, cargs.shape, cargs.volume)

Markets == {EmptyDict, [btc |-> [current_price |-> Float(7)]]}

SectionsInit ==
    /\ pc = "ready"
    /\ cret = PyNone
    /\ Idle
    /\ \E S \in SUBSET Coins : \E order \in OrdersOf(S) :
           \E shape \in [S -> Shapes], volume \in [S -> Volumes] :
               \/ cargs = [fn |-> "_build_cross_coin_analysis", order |-> order,
                           shape |-> shape, volume |-> volume]
               \/ \E markets_data \in Markets, include_history \in BOOLEAN :
                      cargs = [fn |-> "_build_coins_section", order |-> order,
                               shape |-> shape, volume |-> volume,
                               markets_data |-> markets_data,
                               include_history |-> include_history]

CrossCoinCall ==
    /\ cargs.fn = "_build_cross_coin_analysis"
    /\ Returns([raised |-> "no", returned |-> _build_cross_coin_analysis(CallResults)])

CoinsSectionCall ==
    /\ cargs.fn = "_build_coins_section"
    /\ Returns(_build_coins_section(CallResults, cargs.markets_data, cargs.include_history))

SectionsNext ==
    \/ CrossCoinCall
    \/ CoinsSectionCall

SpecSections == SectionsInit /\ [][SectionsNext]_vars

(***************************************************************************)
(* CoinGeckoFetcher.fetch_ohlcv (src/src/fetch/coingecko.py)               *)
(*                                                                         *)
(* Time is counted in hours.  What the API answers to the k-th request of  *)
(* a call is the k-th entry of `responses`: "request_error" (the request   *)
(* or raise_for_status raises a RequestException), "invalid" (a body       *)
(* without the three keys), or a body with the price points [t, price,     *)
(* volume], oldest first, which may be none.  The call leaves what it      *)
(* raised, what it returned, the delays it slept, the number of requests   *)
(* it sent and the levels it logged at.                                    *)
(***************************************************************************)
MAX_RETRIES == 3
RATE_LIMIT_DELAY == Frac(1, 10)

GRANULARITY_LIMITS(granularity) ==
    CASE granularity \in {"1h", "4h"} -> 30
      [] OTHER -> 365

\* pd.DataFrame()
EmptyFrame == [index |-> <<>>, columns |-> {}, data |-> <<>>]

\* df.empty
empty(df) == len(df) = 0 \/ df.columns = {}

\* hours of a candle, by granularity (freq_map, '1D' for any other)
FreqHours(granularity) ==
    CASE granularity = "1h" -> 1
      [] granularity = "4h" -> 4
      [] OTHER -> 24

\* The start of the candle that holds the hour t
Bin(t, hours) == t - (t % hours)

RECURSIVE Ascending(_)
Ascending(S) ==
    IF S = {} THEN <<>>
    ELSE LET least == CHOOSE x \in S : \A y \in S : x <= y
         IN  <<least>> \o Ascending(S \ {least})

\* the prices and the volumes of the points of one candle, oldest first
InBin(points, label, hours) == SelectSeq(points, LAMBDA p : Bin(p.t, hours) = label)

RECURSIVE Highest(_, _)
Highest(ps, k) ==
    IF k = 1 THEN ps[1].price
    ELSE IF Gt(ps[k].price, Highest(ps, k - 1)) THEN ps[k].price ELSE Highest(ps, k - 1)
RECURSIVE Lowest(_, _)
Lowest(ps, k) ==
    IF k = 1 THEN ps[1].price
    ELSE IF Lt(ps[k].price, Lowest(ps, k - 1)) THEN ps[k].price ELSE Lowest(ps, k - 1)
RECURSIVE VolumeSum(_, _)
VolumeSum(ps, k) == IF k = 0 THEN Float(0) ELSE Add(VolumeSum(ps, k - 1), ps[k].volume)

CandleOf(ps) ==
    [open |-> ps[1].price, high |-> Highest(ps, Len(ps)), low |-> Lowest(ps, Len(ps)),
     close |-> ps[Len(ps)].price, volume |-> VolumeSum(ps, Len(ps))]

\* resample(freq) with first/max/min/last and sum, then dropna: one candle
\* for every bin that holds a point
ResampledAt(points, labels, hours) ==
    CandleFrame(labels, [i \in 1 .. Len(labels) |-> CandleOf(InBin(points, labels[i], hours))],
                {"open", "high", "low", "close", "volume"})

_resample_to_ohlcv(points, granularity) ==
    ResampledAt(points,
                Ascending({Bin(points[i].t, FreqHours(granularity)) : i \in 1 .. Len(points)}),
                FreqHours(granularity))

\* lines 132-154 (the keys are there)
_parse_market_chart_response(points, granularity) ==
    IF Len(points) = 0 THEN EmptyFrame ELSE _resample_to_ohlcv(points, granularity)

\* df[(df.index >= start_date) & (df.index <= end_date)]
Rows(df, keep) ==
    [index |-> [i \in 1 .. Len(keep) |-> df.index[keep[i]]],
     columns |-> df.columns,
     data |-> [c \in df.columns |-> [i \in 1 .. Len(keep) |-> df.data[c][keep[i]]]]]

Between(df, start_date, end_date) ==
    Rows(df, Ascending({i \in 1 .. len(df) :
                            df.index[i] >= start_date /\ df.index[i] <= end_date}))

\* lines 61-69
Granularity(call) ==
    IF call.days_requested > GRANULARITY_LIMITS(call.granularity)
       /\ call.granularity \in {"1h", "4h"}
    THEN "1d" ELSE call.granularity

Slept(st, delay) == [st EXCEPT !.sleeps = Append(@, delay)]
Logged(st, level) == [st EXCEPT !.log = Append(@, level)]
Left(st, raised, returned) ==
    [raised |-> raised, returned |-> returned, sleeps |-> st.sleeps, gets |-> st.gets,
     log |-> st.log]

\* lines 99-109
Parsed(call, st, df) ==
    IF empty(df) THEN Left(Logged(st, "warning"), "no", df)
    ELSE Left(Logged(st, "info"), "no",
              Between(df, call.end_date - 24 * call.days_requested, call.end_date))

\* lines 89-124, from the attempt `attempt` on
RECURSIVE Attempts(_, _, _)
Attempts(call, attempt, st) ==
    IF attempt >= MAX_RETRIES THEN Left(st, "no", EmptyFrame)
    ELSE LET response == call.responses[attempt + 1]
             sent == [Logged(st, "debug") EXCEPT !.gets = @ + 1]
         IN  IF response.kind = "request_error"
             THEN IF attempt < MAX_RETRIES - 1
                  THEN Attempts(call, attempt + 1,
                                Slept(Slept(Logged(sent, "warning"),
                                            Mul(RATE_LIMIT_DELAY, Float(attempt + 1))),
                                      RATE_LIMIT_DELAY))
                  ELSE Left(Logged(sent, "warning"), "RequestException", PyNone)
             ELSE IF response.kind = "invalid"
             THEN Left(Logged(sent, "error"), "ValueError", PyNone)
             ELSE Parsed(call, sent,
                         _parse_market_chart_response(response.points, Granularity(call)))

fetch_ohlcv(call) ==
    Attempts(call, 0,
             [sleeps |-> <<>>, gets |-> 0,
              log |-> IF Granularity(call) # call.granularity THEN <<"warning">> ELSE <<>>])

(***************************************************************************)
(* A direct call of fetch_ohlcv                                            *)
(***************************************************************************)
EndDates == {48}

Point(t, price, volume) == [t |-> t, price |-> Float(price), volume |-> Float(volume)]

Body(points) == [kind |-> "body", points |-> points]

Responses ==
    {[kind |-> "request_error"], [kind |-> "invalid"], Body(<<>>),
     Body(<<Point(44, 2, 3)>>),
     Body(<<Point(20, 1, 3), Point(44, 2, 3), Point(45, 4, 5), Point(47, 1, 3)>>)}

FetchInit ==
    /\ pc = "ready"
    /\ cret = PyNone
    /\ Idle
    /\ \E responses \in [1 .. MAX_RETRIES -> Responses], granularity \in Granularities,
          days_requested \in {1, 31}, end_date \in EndDates :
           cargs = [fn |-> "fetch_ohlcv", responses |-> responses,
                    granularity |-> granularity, days_requested |-> days_requested,
                    end_date |-> end_date]

FetchCall ==
    /\ cargs.fn = "fetch_ohlcv"
    /\ Returns(fetch_ohlcv(cargs))

FetchNext == FetchCall

SpecFetch == FetchInit /\ [][FetchNext]_vars

(***************************************************************************)
(* Pipeline.run (src/src/pipeline.py)                                      *)
(*                                                                         *)
(* A call is the list of coins, the horizon's configuration (None for an   *)
(* unknown horizon), the configured indicators and export formats, and,    *)
(* for every position of the list, what the fetcher meets there: the       *)
(* responses of the API, or a frame that a stubbed fetcher hands back.     *)
(* The run leaves what it raised, the coins it fetched in order, the       *)
(* results dict in insertion order, the exporter calls, the levels logged  *)
(* with their coins, and whether the market data step ran.                 *)
(***************************************************************************)
\* self.fetcher.fetch_ohlcv(...) at position i of the list
FetchAt(call, i) ==
    IF call.plans[i].kind = "stub"
    THEN [raised |-> "no", returned |-> call.plans[i].df]
    ELSE fetch_ohlcv([responses |-> call.plans[i].responses,
                      granularity |-> call.horizon_config.granularity,
                      days_requested |-> call.horizon_config.lookback_days,
                      end_date |-> call.end_date])

\* results[coin] = value: a new key goes last, a known key keeps its place
SetItem(d, coin, value) ==
    IF \E k \in 1 .. Len(d) : d[k].coin = coin
    THEN [k \in 1 .. Len(d) |-> IF d[k].coin = coin THEN value ELSE d[k]]
    ELSE Append(d, value)

Noted(st, level, coin) == [st EXCEPT !.log = Append(@, <<level, coin>>)]

\* lines 74-92
Stored(st, coin, computed) ==
    IF computed.raised # "no" THEN Noted(st, "error", coin)
    ELSE [Noted(st, "info", coin) EXCEPT
             !.results = SetItem(@, coin, [coin |-> coin, df |-> computed.returned,
                                           total_candles |-> len(computed.returned)])]

\* lines 63-96
Processed(st, call, coin, got) ==
    IF got.raised # "no" THEN Noted(st, "error", coin)
    ELSE IF empty(got.returned) THEN Noted(st, "warning", coin)
    ELSE Stored(st, coin, calculate_all_indicators(got.returned, call.indicators))

\* Mutant: the exception of a coin ends the loop
LoopStepBreaking(st, call, i) ==
    IF st.stopped THEN st
    ELSE IF FetchAt(call, i).raised # "no"
    THEN [st EXCEPT !.stopped = TRUE, !.fetched = Append(@, call.coins[i])]
    ELSE Processed([st EXCEPT !.fetched = Append(@, call.coins[i])],
                   call, call.coins[i], FetchAt(call, i))

\* one turn of the loop of lines 58-96
LoopStep(st, call, i) ==
    Processed([st EXCEPT !.fetched = Append(@, call.coins[i])],
              call, call.coins[i], FetchAt(call, i))

RECURSIVE CoinsLoop(_, _, _)
CoinsLoop(st, call, i) ==
    IF i > Len(call.coins) THEN st
    ELSE CoinsLoop(LoopStep(st, call, i), call, i + 1)

\* _export_results: the exporters of the configured formats, in this order
Formats == <<"json", "csv", "sqlite", "charts">>

_export_results(results, formats) ==
    [k \in 1 .. Len(SelectSeq(Formats, LAMBDA f : f \in formats)) |->
        [exporter |-> SelectSeq(Formats, LAMBDA f : f \in formats)[k],
         coins |-> [j \in 1 .. Len(results) |-> results[j].coin]]]

\* lines 98-105
Finished(st, call) ==
    [raised |-> "no", fetched |-> st.fetched, results |-> st.results,
     exports |-> IF Len(st.results) > 0 THEN _export_results(st.results, call.formats)
                 ELSE <<>>,
     log |-> IF Len(st.results) > 0 THEN st.log ELSE Append(st.log, <<"warning", "">>),
     market |-> TRUE]

run(call) ==
    IF call.horizon_config = PyNone
    THEN [raised |-> "ValueError", fetched |-> <<>>, results |-> <<>>, exports |-> <<>>,
          log |-> <<>>, market |-> FALSE]
    ELSE Finished(CoinsLoop([fetched |-> <<>>, results |-> <<>>, log |-> <<>>,
                             stopped |-> FALSE], call, 1),
                  call)

(***************************************************************************)
(* A direct call of Pipeline.run                                           *)
(***************************************************************************)
MaxRun == 3

RunCoins == {AllCoins[i] : i \in 1 .. MaxRun}
CoinLists == UNION {OrdersOf(S) : S \in SUBSET RunCoins}

Respond(responses) == [kind |-> "api", responses |-> responses]
Stub(df) == [kind |-> "stub", df |-> df]

Down == [kind |-> "request_error"]
Several == Body(<<Point(20, 1, 3), Point(44, 2, 3), Point(45, 4, 5), Point(47, 1, 3)>>)

\* What a position of the list can meet: candles at once, one candle after
\* a retry, a point before the range alone, three failed requests, and a
\* stubbed frame without the volume column
Plans ==
    {Respond(<<Several, Down, Down>>),
     Respond(<<Down, Body(<<Point(44, 2, 3)>>), Down>>),
     Respond(<<Body(<<Point(20, 1, 3)>>), Down, Down>>),
     Respond(<<Down, Down, Down>>),
     Stub(CandleFrame(<<44>>, <<[open |-> Float(1), high |-> Float(2), low |-> Float(1),
                                close |-> Float(2)]>>,
                      {"open", "high", "low", "close"}))}

Hourly == [lookback_days |-> 1, granularity |-> "1h"]
FourHourly == [lookback_days |-> 31, granularity |-> "4h"]

\* The horizon's configuration with the configured indicators and export
\* formats
Setups ==
    {[horizon_config |-> Hourly, indicators |-> <<"rsi", "atr", "obv">>,
      formats |-> {"json", "charts"}],
     [horizon_config |-> FourHourly, indicators |-> <<"rsi", "atr", "obv">>,
      formats |-> {"json", "charts"}],
     [horizon_config |-> Hourly, indicators |-> <<"sma", "vwap">>, formats |-> {}]}

RunArgs(coins, horizon_config, setup, plans, end_date) ==
    [fn |-> "Pipeline.run", coins |-> coins, horizon_config |-> horizon_config,
     indicators |-> setup.indicators, formats |-> setup.formats, plans |-> plans,
     end_date |-> end_date]

RunInit ==
    /\ pc = "ready"
    /\ cret = PyNone
    /\ Idle
    /\ \E coins \in CoinLists, setup \in Setups, end_date \in EndDates :
           \/ \E plans \in [1 .. Len(coins) -> Plans] :
                  cargs = RunArgs(coins, setup.horizon_config, setup, plans, end_date)
           \/ cargs = RunArgs(coins, PyNone, setup,
                              [i \in 1 .. Len(coins) |-> Respond(<<Several, Down, Down>>)],
                              end_date)

RunCall ==
    /\ cargs.fn = "Pipeline.run"
    /\ Returns(run(cargs))

RunNext == RunCall

SpecRun == RunInit /\ [][RunNext]_vars

(***************************************************************************)
(* Claims about the freshness policy (SpecFreshness)                       *)
(***************************************************************************)
At(d, h, s) == [date |-> d, hour |-> h, sub |-> s]
PriorAt(d, h, s) == [meta |-> MetaAt(Ticks(At(d, h, s)))]

\* C1: force flags win over everything: whatever the granularity, now and the
\* prior state, both flags give (true, true), force_hourly alone (true, false),
\* force_daily alone (true, true).
C1_ForceFlagsFirst ==
    Done =>
        /\ (fargs.force_hourly /\ fargs.force_daily => fret = <<TRUE, TRUE>>)
        /\ (fargs.force_hourly /\ ~fargs.force_daily => fret = <<TRUE, FALSE>>)
        /\ (~fargs.force_hourly /\ fargs.force_daily => fret = <<TRUE, TRUE>>)

\* force_hourly alone, over a prior run of the day before: long stats stay out
C1_Witness ==
    /\ Done /\ fargs.force_hourly /\ ~fargs.force_daily
    /\ HasPrior /\ DateDiffers
    /\ fret = <<TRUE, FALSE>>

\* C2: cold start: without force flags and without a usable prior run (no
\* horizon entry, no meta, no readable run timestamp) the policy returns
\* (true, true) for every granularity and every now.
C2_ColdStart ==
    Done /\ Unforced /\ fexisting \in ColdInputs => fret = <<TRUE, TRUE>>

\* an unparsable run_timestamp, daily data
C2_Witness ==
    /\ Done /\ Unforced /\ fargs.granularity = "1d"
    /\ fexisting = [meta |-> [run_timestamp |-> GarbageStr]]
    /\ fret = <<TRUE, TRUE>>

\* C3: without force flags and with a prior run, for 1h and for every
\* granularity outside {1h, 4h, 1d}, include_history is true exactly when the
\* calendar hour or the calendar date of last_run differs from now's; a run
\* at 10:59 followed by one at 11:00 of the same day gives (true, false).
C3_HourlyRule ==
    Done /\ Unforced /\ HasPrior /\ fargs.granularity \notin {"4h", "1d"} =>
        /\ fret[1] = (HourDiffers \/ DateDiffers)
        /\ (fexisting = PriorAt(0, 10, TicksPerHour - 1) /\ fargs.now = At(0, 11, 0)
                => fret = <<TRUE, FALSE>>)

\* the scenario of the hour boundary, and the same hour of the next day under
\* an unknown granularity
C3_Witness ==
    /\ Done /\ Unforced /\ HasPrior
    /\ \/ /\ fargs.granularity = "1h"
          /\ fexisting = PriorAt(0, 10, TicksPerHour - 1) /\ fargs.now = At(0, 11, 0)
          /\ fret = <<TRUE, FALSE>>
       \/ /\ fargs.granularity = "15m"
          /\ ~HourDiffers /\ DateDiffers
          /\ fret[1]

\* C4: without force flags and with a prior run, for 4h include_history is
\* true exactly when the 4-hour bucket (hour // 4) or the calendar date of
\* last_run differs from now's.
C4_FourHourRule ==
    Done /\ Unforced /\ HasPrior /\ fargs.granularity = "4h" =>
        fret[1] = ((PriorRun.hour \div 4) # (fargs.now.hour \div 4) \/ DateDiffers)

\* hours 3 and 4 are in different buckets; hours 4 and 7 are in the same one
C4_Witness ==
    /\ Done /\ Unforced /\ HasPrior /\ fargs.granularity = "4h" /\ ~DateDiffers
    /\ \/ PriorRun.hour = 3 /\ fargs.now.hour = 4 /\ fret[1]
       \/ PriorRun.hour = 4 /\ fargs.now.hour = 7 /\ ~fret[1]

\* C5: without force flags and with a prior run, for 1d include_history is
\* true exactly when the calendar date of last_run differs from now's,
\* whatever the hours; 23:59 followed by 00:00 of the next day gives
\* (true, true).
C5_DailyRule ==
    Done /\ Unforced /\ HasPrior /\ fargs.granularity = "1d" =>
        /\ fret[1] = DateDiffers
        /\ (fexisting = PriorAt(0, 23, TicksPerHour - 1) /\ fargs.now = At(1, 0, 0)
                => fret = <<TRUE, TRUE>>)

\* the scenario of the date boundary, and two hours of one day
C5_Witness ==
    /\ Done /\ Unforced /\ HasPrior /\ fargs.granularity = "1d"
    /\ \/ /\ fexisting = PriorAt(0, 23, TicksPerHour - 1) /\ fargs.now = At(1, 0, 0)
          /\ fret = <<TRUE, TRUE>>
       \/ /\ HourDiffers /\ ~DateDiffers /\ ~fret[1]

\* C6: without force flags and with a prior run, include_long_stats is true
\* iff the calendar date of last_run differs from now's, whatever the
\* granularity; so include_long_stats implies include_history.
C6_LongStatsByDate ==
    Done /\ Unforced /\ HasPrior =>
        /\ fret[2] = DateDiffers
        /\ (fret[2] => fret[1])

\* less than 24 hours apart but across midnight
C6_Witness ==
    /\ Done /\ Unforced /\ HasPrior /\ DateDiffers
    /\ Ticks(fargs.now) - Ticks(PriorRun) < 24 * TicksPerHour
    /\ fret = <<TRUE, TRUE>>

\* C7: idempotence: without force flags and with a prior run in the same
\* calendar hour of the same date as now, the policy returns (false, false)
\* for every granularity.
C7_SameBucketIdle ==
    Done /\ Unforced /\ HasPrior /\ ~HourDiffers /\ ~DateDiffers =>
        fret = <<FALSE, FALSE>>

\* last_run one tick before now, inside the hour
C7_Witness ==
    /\ Done /\ Unforced /\ HasPrior /\ ~HourDiffers /\ ~DateDiffers
    /\ Ticks(fargs.now) = Ticks(PriorRun) + 1
    /\ fargs.granularity = "15m"
    /\ fret = <<FALSE, FALSE>>

Ran == last # PyNone
Wrote == Ran /\ last.outcome = "written"
Stamp(t) == PlusZ(isoformat(DateTime(t)))
OneHour == TicksPerHour
OneDay == 24 * TicksPerHour

\* The span of one candle of the granularity
Period(granularity) ==
    IF granularity = "4h" THEN 4 * OneHour
    ELSE IF granularity = "1d" THEN OneDay
    ELSE OneHour

C10_EntriesKept ==
    [][Ran' /\ last'.outcome # "skipped" =>
          /\ \A o \in Horizons \ {last'.horizon} :
                 Truthy(snapshot) /\ o \in DOMAIN snapshot =>
                     Truthy(snapshot') /\ o \in DOMAIN snapshot' /\ snapshot'[o] = snapshot[o]
          /\ Truthy(snapshot') /\ last'.horizon \in DOMAIN snapshot'
          /\ snapshot'[last'.horizon]["meta"]["run_timestamp"] = Stamp(clock')]_vars

(***************************************************************************)
(* Claims about the signal classifier (SpecSignals)                        *)
(***************************************************************************)
\* The finished call, as the claims name it
SignalN == cargs.n
Emitted == cret.coin_data
Has(c) == c \in SignalDf.columns /\ ~isna(Latest(SignalDf)[c])
LatestOf(c) == Latest(SignalDf)[c]
\* a finite float against a whole number
Above(x, i) == x = Inf \/ (x.d > 0 /\ x.n > i * x.d)
Below(x, i) == x = Neg(Inf) \/ (x.d > 0 /\ x.n < i * x.d)

\* C11: whenever the latest RSI is defined, rsi_state is overbought if
\* RSI > 70, oversold if RSI < 30 and neutral otherwise; 70 and 30 are
\* neutral, 71.2 is overbought, 29.9 oversold and 50.0 neutral.
C11_RsiState ==
    Done /\ Has("rsi_14") =>
        /\ "rsi_state" \in DOMAIN Emitted
        /\ Emitted["rsi_state"] = "overbought" <=> Above(LatestOf("rsi_14"), 70)
        /\ Emitted["rsi_state"] = "oversold" <=> Below(LatestOf("rsi_14"), 30)
        /\ Emitted["rsi_state"] \in {"overbought", "oversold", "neutral"}
        /\ LatestOf("rsi_14") \in {Float(70), Float(30), Float(50)}
               => Emitted["rsi_state"] = "neutral"
        /\ LatestOf("rsi_14") = Frac(712, 10) => Emitted["rsi_state"] = "overbought"
        /\ LatestOf("rsi_14") = Frac(299, 10) => Emitted["rsi_state"] = "oversold"

\* an RSI of exactly 70 classified neutral
C11_Witness ==
    /\ Done /\ Has("rsi_14") /\ LatestOf("rsi_14") = Float(70)
    /\ Emitted["rsi_state"] = "neutral"

\* The previous histogram value, when the frame has one
HasPrev == SignalN >= 2 /\ ~isna(SignalDf.data["macd_histogram"][SignalN - 1])
PrevHist == SignalDf.data["macd_histogram"][SignalN - 1]

\* C12: whenever the latest MACD histogram value h is defined, macd_state is
\* bullish_cross iff the previous value p is defined, p <= 0 and h > 0,
\* bearish_cross iff p is defined, p >= 0 and h < 0, and neutral otherwise,
\* also on a one-row frame and with p undefined; [-0.5, -0.1, 0.3] ends in
\* bullish_cross.
C12_MacdCross ==
    Done /\ Has("macd_histogram") =>
        /\ "macd_state" \in DOMAIN Emitted
        /\ Emitted["macd_state"] \in {"bullish_cross", "bearish_cross", "neutral"}
        /\ Emitted["macd_state"] = "bullish_cross" <=>
               (HasPrev /\ ~Above(PrevHist, 0) /\ Above(LatestOf("macd_histogram"), 0))
        /\ Emitted["macd_state"] = "bearish_cross" <=>
               (HasPrev /\ ~Below(PrevHist, 0) /\ Below(LatestOf("macd_histogram"), 0))
        /\ (SignalN >= 3
            /\ cargs.tails["macd_histogram"] = <<Frac(0 - 1, 2), Frac(0 - 1, 10), Frac(3, 10)>>)
               => Emitted["macd_state"] = "bullish_cross"

\* the histogram leaving zero upwards: a bullish cross
C12_Witness ==
    /\ Done /\ Has("macd_histogram") /\ HasPrev
    /\ PrevHist = Float(0) /\ LatestOf("macd_histogram") = Frac(3, 10)
    /\ Emitted["macd_state"] = "bullish_cross"

\* Row numbers of the valid OBV points of the trailing 5-row window
ObvValid ==
    {i \in 1 .. SignalN : i > SignalN - 5 /\ ~isna(SignalDf.data["obv"][i])}
Min(S) == CHOOSE i \in S : \A j \in S : i <= j
Max(S) == CHOOSE i \in S : \A j \in S : i >= j
ObvStart == SignalDf.data["obv"][Min(ObvValid)]
ObvEnd == SignalDf.data["obv"][Max(ObvValid)]
ObvCompared ==
    IF Gt(ObvEnd, ObvStart) THEN "up" ELSE IF Lt(ObvEnd, ObvStart) THEN "down" ELSE "flat"

\* C13, as claimed: the OBV trend compares the first with the last valid OBV
\* value of the trailing 5-row window (up, down, flat) and is undefined
\* exactly when that window holds fewer than 2 valid points.
C13_ObvTrendByWindow ==
    Done /\ "obv" \in SignalDf.columns =>
        /\ "obv_trend" \in DOMAIN Emitted <=> Cardinality(ObvValid) >= 2
        /\ "obv_trend" \in DOMAIN Emitted => Emitted["obv_trend"] = ObvCompared

\* C13, amended: the OBV trend compares the first with the last valid OBV
\* value of the trailing 5-row window (up, down, flat) and is undefined
\* exactly when the frame has fewer than 5 rows or that window holds fewer
\* than 2 valid points.
C13_ObvTrendByWindowOfFive ==
    Done /\ "obv" \in SignalDf.columns =>
        /\ "obv_trend" \in DOMAIN Emitted <=> (SignalN >= 5 /\ Cardinality(ObvValid) >= 2)
        /\ "obv_trend" \in DOMAIN Emitted => Emitted["obv_trend"] = ObvCompared

\* a window whose first and last rows are undefined, with a falling trend
\* between the two valid rows that remain
C13_Witness ==
    /\ Done /\ "obv" \in SignalDf.columns /\ SignalN >= 5
    /\ Cardinality(ObvValid) = 2
    /\ isna(LatestOf("obv")) /\ isna(SignalDf.data["obv"][SignalN - 4])
    /\ Emitted["obv_trend"] = "down"

\* The categories: the columns each reads and the keys each writes
CategoryInputs ==
    [rsi |-> {"rsi_14"}, macd |-> {"macd_histogram"}, ema |-> {"ema_50", "ema_200"},
     bb |-> {"bb_percent_b"}, adx |-> {"adx_14"}, atr |-> {"atr_14"}, obv |-> {"obv"}]
CategoryKeys ==
    [rsi |-> {"rsi_14", "rsi_state"}, macd |-> {"macd_hist", "macd_state"},
     ema |-> {"ema_50_200"}, bb |-> {"bb_percent_b", "bb_state"},
     adx |-> {"adx_14", "trend_strength"}, atr |-> {"atr_pct"}, obv |-> {"obv_trend"}]
Categories == DOMAIN CategoryInputs

\* an input of the category is absent or undefined in the latest row
Missing(cat) == \E c \in CategoryInputs[cat] : ~Has(c)

\* The same frame with every missing input filled in
FullDf ==
    Frame(cargs.n, SignalColumns,
          [c \in SignalColumns |->
              IF c \notin cargs.columns THEN TypicalA[c]
              ELSE IF isna(cargs.tails[c][Len(cargs.tails[c])])
              THEN [cargs.tails[c] EXCEPT ![Len(cargs.tails[c])] =
                        TypicalA[c][Len(TypicalA[c])]]
              ELSE cargs.tails[c]])
FullEmitted ==
    _add_indicator_signals(CoinDataBefore(FullDf), FullDf, Latest(FullDf)).coin_data

NoSignal(cat) == CategoryKeys[cat] \cap DOMAIN Emitted = {}
SameIn(cat, emitted, full) ==
    \A k \in CategoryKeys[cat] :
        /\ k \in DOMAIN emitted <=> k \in DOMAIN full
        /\ k \in DOMAIN emitted => emitted[k] = full[k]
SameSignal(cat) == SameIn(cat, Emitted, FullEmitted)

\* C14, as claimed: whatever indicator columns are absent or undefined in the
\* latest row, the classification returns, emits nothing for the categories
\* with a missing input and emits for every other category what it emits
\* when all inputs are there.
C14_MissingInputs ==
    Done =>
        /\ cret.raised = "no"
        /\ LET full == FullEmitted
           IN  \A cat \in Categories :
                   IF Missing(cat) THEN NoSignal(cat) ELSE SameIn(cat, Emitted, full)

\* C14, amended: the same, except that an OBV value undefined in the latest
\* row alone does not silence the OBV trend: the trend is silent when the
\* column is absent and otherwise follows the valid points of the trailing
\* window.
C14_MissingInputsObvWindow ==
    Done =>
        /\ cret.raised = "no"
        /\ LET full == FullEmitted
           IN  /\ \A cat \in Categories \ {"obv"} :
                      IF Missing(cat) THEN NoSignal(cat) ELSE SameIn(cat, Emitted, full)
               /\ Has("obv") => SameIn("obv", Emitted, full)
        /\ "obv" \notin SignalDf.columns => NoSignal("obv")
        /\ ("obv" \in SignalDf.columns /\ ~Has("obv")) =>
               ("obv_trend" \in DOMAIN Emitted
                    <=> (SignalN >= 5 /\ Cardinality(ObvValid) >= 2))

\* RSI absent, MACD undefined in the latest row, and the Bollinger and ADX
\* signals emitted as on the full frame
C14_Witness ==
    /\ Done /\ cret.raised = "no"
    /\ "rsi_14" \notin SignalDf.columns
    /\ "macd_histogram" \in SignalDf.columns /\ isna(LatestOf("macd_histogram"))
    /\ NoSignal("rsi") /\ NoSignal("macd")
    /\ ~Missing("bb") /\ Emitted["bb_state"] = "above_band" /\ SameSignal("bb")
    /\ ~Missing("adx") /\ Emitted["trend_strength"] = "weak"

(***************************************************************************)
(* Claims about the indicators (SpecIndicators)                            *)
(***************************************************************************)
\* The finished call, as the claims name it
Called(fn) == pc = "done" /\ cargs.fn = fn
Batch == Called("calculate_all_indicators")
Known(indicators) == SelectSeq(indicators, LAMBDA x : x \in Recognized)
Unknown(indicators) == SelectSeq(indicators, LAMBDA x : x \notin Recognized)
\* a column that each recognized name must leave in the frame
Leaves ==
    [ema |-> "ema_200", sma |-> "sma_20", rsi |-> "rsi_14", macd |-> "macd_histogram",
     bollinger |-> "bb_percent_b", atr |-> "atr_14", adx |-> "adx_14", obv |-> "obv"]

\* C15: an unknown name in the requested list does not abort the batch: on a
\* frame with the OHLCV columns the call returns, warns once per unknown
\* name, leaves the columns of every recognized name of the list, with the
\* values the list without the unknown names gives, and leaves the OHLCV
\* columns and the number of rows as they were.
C15_UnknownSkipped ==
    Batch /\ OHLCV \subseteq cargs.df.columns =>
        /\ cret.raised = "no"
        /\ cret.printed = Unknown(cargs.indicators)
        /\ \A k \in 1 .. Len(cargs.indicators) :
               cargs.indicators[k] \in Recognized
                   => Leaves[cargs.indicators[k]] \in cret.returned.columns
        /\ cret.returned =
               calculate_all_indicators(cargs.df, Known(cargs.indicators)).returned
        /\ \A c \in OHLCV : cret.returned.data[c] = cargs.df.data[c]
        /\ len(cret.returned) = len(cargs.df)

\* an unknown name first, between and last: the known ones are computed
C15_Witness ==
    /\ Batch /\ OHLCV \subseteq cargs.df.columns /\ len(cargs.df) = 2
    /\ \/ cargs.indicators = <<"vwap", "sma", "atr">>
       \/ cargs.indicators = <<"sma", "vwap", "atr">>
       \/ cargs.indicators = <<"sma", "atr", "vwap">>
    /\ cret.raised = "no"
    /\ {"sma_20", "atr_14", "true_range"} \subseteq cret.returned.columns
    /\ cret.printed = <<"vwap">>

StrictlyIncreasing(index) == \A i \in 1 .. Len(index) - 1 : index[i] < index[i + 1]
Malformed(df) ==
    \/ ~StrictlyIncreasing(df.index)
    \/ ~({"open", "high", "low", "close"} \subseteq df.columns)

\* C16: a malformed frame (timestamps that do not strictly increase, or an
\* OHLC column missing) is rejected: the call raises and returns no frame.
C16_MalformedRejected ==
    Batch /\ Malformed(cargs.df) => cret.raised # "no" /\ cret.returned = PyNone

\* C17: every Series an indicator returns has one entry per entry of its
\* input, for every period, and the frame that the batch returns has the
\* input's index and one entry per row in every column.
C17_LengthInvariant ==
    /\ Batch /\ cret.raised = "no" =>
           /\ cret.returned.index = cargs.df.index
           /\ \A c \in cret.returned.columns :
                  Len(cret.returned.data[c]) = len(cargs.df)
           /\ \A k \in 1 .. Len(cargs.indicators) :
                  cargs.indicators[k] \in Recognized
                      => Leaves[cargs.indicators[k]] \in cret.returned.columns
    /\ Called("calculate_sma") \/ Called("calculate_ema") \/ Called("calculate_rsi") =>
           Len(cret.returned) = Len(cargs.data)
    /\ Called("calculate_atr") \/ Called("calculate_true_range") \/ Called("calculate_obv") =>
           Len(cret.returned) = len(cargs.df)

\* an SMA over a window longer than the Series: as long as the Series
C17_Witness ==
    /\ Called("calculate_sma") /\ Len(cargs.data) = 2 /\ cargs.period = 3
    /\ cret.returned = <<NaN, NaN>>

NoneUndefined(s) == \A i \in 1 .. Len(s) : ~isna(s[i])

\* C18: on closes that are all defined, calculate_sma returns, and SMA(p) is
\* undefined at every index below p - 1 and defined from p - 1 on (rows are
\* counted from 1 here, indexes from 0); a Series shorter than p gives only
\* undefined values.
C18_SmaWarmup ==
    Called("calculate_sma") /\ NoneUndefined(cargs.data) =>
        /\ cret.raised = "no"
        /\ \A i \in 1 .. Len(cargs.data) :
               /\ i - 1 < cargs.period - 1 => isna(cret.returned[i])
               /\ i - 1 >= cargs.period - 1 =>
                      cret.returned[i].d > 0
                      /\ Mul(cret.returned[i], Float(cargs.period))
                             = SumOver(cargs.data, i - cargs.period + 1, i)
        /\ Len(cargs.data) < cargs.period => \A i \in 1 .. Len(cret.returned) :
               isna(cret.returned[i])

\* SMA(3) of 1, 2, 4, 4: undefined twice, then 7/3 and 10/3
C18_Witness ==
    /\ Called("calculate_sma") /\ cargs.period = 3
    /\ cargs.data = <<Float(1), Float(2), Float(4), Float(4)>>
    /\ cret.returned = <<NaN, NaN, Frac(7, 3), Frac(10, 3)>>

\* The candles' prices are whole numbers
Whole(df, c, t) == df.data[c][t].n
Largest(S) == CHOOSE x \in S : \A y \in S : x >= y
TrueRangeAt(df, t) ==
    Largest({Whole(df, "high", t) - Whole(df, "low", t),
             Abs(Whole(df, "high", t) - Whole(df, "close", t - 1)),
             Abs(Whole(df, "low", t) - Whole(df, "close", t - 1))})

\* C19: True Range is undefined at index 0 and, at every later index t,
\* max(high[t] - low[t], |high[t] - close[t-1]|, |low[t] - close[t-1]|).
C19_TrueRange ==
    Called("calculate_true_range") =>
        \A t \in 1 .. len(cargs.df) :
            IF t = 1 THEN isna(cret.returned[t])
            ELSE cret.returned[t] = Float(TrueRangeAt(cargs.df, t))

\* C20: OBV[0] = 0 and every later step adds the candle's volume if the
\* close rose, takes it off if the close fell and adds nothing if the close
\* is unchanged.
C20_ObvStepLaw ==
    Called("calculate_obv") =>
        \A t \in 1 .. len(cargs.df) :
            IF t = 1 THEN cret.returned[t] = Float(0)
            ELSE cret.returned[t].n - cret.returned[t - 1].n =
                     Whole(cargs.df, "volume", t)
                         * Sign(Whole(cargs.df, "close", t) - Whole(cargs.df, "close", t - 1))
                 /\ cret.returned[t].d = 1

\* closes 1, 2, 1 on volumes 3, 5, 3: OBV 0, 5, 2
C20_Witness ==
    /\ Called("calculate_obv") /\ len(cargs.df) = 3
    /\ cargs.df.data["close"] = <<Float(1), Float(2), Float(1)>>
    /\ cargs.df.data["volume"] = <<Float(3), Float(5), Float(3)>>
    /\ cret.returned = <<Float(0), Float(5), Float(2)>>

\* The rise and the fall of the close at row i, and Wilder's average of the
\* first i of them: avg[1] = x[1], avg[i] = ((p - 1) * avg[i-1] + x[i]) / p
Rise(data, i) ==
    IF i > 1 /\ Gt(data[i], data[i - 1]) THEN Sub(data[i], data[i - 1]) ELSE Float(0)
Fall(data, i) ==
    IF i > 1 /\ Lt(data[i], data[i - 1]) THEN Sub(data[i - 1], data[i]) ELSE Float(0)
RECURSIVE AvgGain(_, _, _)
AvgGain(data, period, i) ==
    IF i = 1 THEN Rise(data, 1)
    ELSE Add(Mul(Frac(period - 1, period), AvgGain(data, period, i - 1)),
             Mul(Frac(1, period), Rise(data, i)))
RECURSIVE AvgLoss(_, _, _)
AvgLoss(data, period, i) ==
    IF i = 1 THEN Fall(data, 1)
    ELSE Add(Mul(Frac(period - 1, period), AvgLoss(data, period, i - 1)),
             Mul(Frac(1, period), Fall(data, i)))

\* C21: calculate_rsi returns, and at every index where the smoothed average
\* loss is 0 the RSI is 100 if the smoothed average gain is above 0 and the
\* undefined marker if it is 0 too (index 0 included); it is never a
\* fabricated 0 there.
C21_RsiZeroDenominator ==
    Called("calculate_rsi") =>
        /\ cret.raised = "no"
        /\ Len(cret.returned) = Len(cargs.data)
        /\ \A i \in 1 .. Len(cargs.data) :
               AvgLoss(cargs.data, cargs.period, i) = Float(0) =>
                   IF Gt(AvgGain(cargs.data, cargs.period, i), Float(0))
                   THEN cret.returned[i] = Float(100)
                   ELSE isna(cret.returned[i])

\* closes 1, 1, 2, 1 with period 3: no movement, no movement, a gain alone,
\* then a loss
C21_Witness ==
    /\ Called("calculate_rsi") /\ cargs.period = 3
    /\ cargs.data = <<Float(1), Float(1), Float(2), Float(1)>>
    /\ AvgLoss(cargs.data, 3, 2) = Float(0) /\ AvgGain(cargs.data, 3, 2) = Float(0)
    /\ AvgLoss(cargs.data, 3, 3) = Float(0) /\ AvgGain(cargs.data, 3, 3) = Frac(1, 3)
    /\ cret.returned = <<NaN, NaN, Float(100), Float(40)>>

\* C22: every defined RSI value lies in 0 .. 100, for every Series and period.
C22_RsiRange ==
    Called("calculate_rsi") =>
        \A i \in 1 .. Len(cret.returned) :
            ~isna(cret.returned[i]) =>
                Ge(cret.returned[i], Float(0)) /\ Le(cret.returned[i], Float(100))

\* closes 4, 2, 4, 1 with period 2: only losses (0), then values inside the range
C22_Witness ==
    /\ Called("calculate_rsi") /\ cargs.period = 2
    /\ cargs.data = <<Float(4), Float(2), Float(4), Float(1)>>
    /\ cret.returned[2] = Float(0)
    /\ Gt(cret.returned[3], Float(0)) /\ Lt(cret.returned[3], Float(100))
    /\ Gt(cret.returned[4], Float(0)) /\ Lt(cret.returned[4], Float(100))

(***************************************************************************)
(* Claims about the cross-asset rankings (SpecSections)                    *)
(***************************************************************************)
Ranked == Called("_build_cross_coin_analysis")
Rankings == {"top_momentum_24h", "top_volume", "lowest_volatility"}
Points(c) == Len(Closes[cargs.shape[c]])
FrameOf(c) == PriceFrame(cargs.shape[c], cargs.volume[c])
\* the value that ranking r orders coin c by, larger meaning later
RankValue(r, c) ==
    CASE r = "top_momentum_24h" -> Neg(Perf24h(FrameOf(c)))
      [] r = "top_volume" -> Neg(VolumeAvg(FrameOf(c)))
      [] r = "lowest_volatility" -> Volatility(FrameOf(c))
Listed(r) == cret.returned[r]
Place(c) == CHOOSE i \in 1 .. Len(AllCoins) : AllCoins[i] = c

\* C23: the momentum ranking lists the assets by percentage change, highest
\* first, the volume ranking by mean volume, highest first, and the
\* volatility ranking by volatility, lowest first: no asset is listed after
\* one that should come later.
C23_RankingsOrdered ==
    Ranked =>
        \A r \in Rankings : \A i, j \in 1 .. Len(Listed(r)) :
            i < j => ~Gt(RankValue(r, Listed(r)[i]), RankValue(r, Listed(r)[j]))

\* C24: in each ranking, assets with equal ranking values are listed in
\* ascending order of their identifiers.
C24_TiesByIdentifier ==
    Ranked =>
        \A r \in Rankings : \A i, j \in 1 .. Len(Listed(r)) :
            /\ i < j
            /\ ~isna(RankValue(r, Listed(r)[i]))
            /\ RankValue(r, Listed(r)[i]) = RankValue(r, Listed(r)[j])
            => Place(Listed(r)[i]) < Place(Listed(r)[j])

Times_(c, list) == Cardinality({i \in 1 .. Len(list) : list[i] = c})

\* C25: an asset with an empty or single-point series is in none of the
\* three rankings, every asset with two points or more is in each exactly
\* once, and a single-point asset still has its entry in the coins section.
C25_ShortSeriesUnranked ==
    /\ Ranked =>
           \A c \in DOMAIN cargs.shape : \A r \in Rankings :
               Times_(c, Listed(r)) = (IF Points(c) >= 2 THEN 1 ELSE 0)
    /\ Called("_build_coins_section") =>
           /\ cret.raised = "no"
           /\ \A c \in DOMAIN cargs.shape : Points(c) = 1 => c \in DOMAIN cret.coins_data

(***************************************************************************)
(* Claims about the fetcher (SpecFetch)                                    *)
(***************************************************************************)
Sleeps(delay) == {i \in 1 .. Len(cret.sleeps) : cret.sleeps[i] = delay}

\* C27: every fetch_ohlcv call that sends a request and returns sleeps the
\* rate-limit delay RATE_LIMIT_DELAY at least once, also when its first
\* attempt succeeds (a call that ends by raising is left aside).
C27_RateLimited ==
    Called("fetch_ohlcv") /\ cret.gets >= 1 /\ cret.raised = "no" =>
        Sleeps(RATE_LIMIT_DELAY) # {}

(***************************************************************************)
(* Claims about the pipeline (SpecRun)                                     *)
(***************************************************************************)
RunDone == Called("Pipeline.run") /\ cargs.horizon_config # PyNone
\* The positions of the list whose coin is fetched with candles and gets its
\* indicators
Succeeds(i) ==
    /\ FetchAt(cargs, i).raised = "no"
    /\ ~empty(FetchAt(cargs, i).returned)
    /\ calculate_all_indicators(FetchAt(cargs, i).returned, cargs.indicators).raised = "no"
Fails(i) == ~Succeeds(i)
Positions == [i \in 1 .. Len(cargs.coins) |-> i]
Succeeded ==
    LET ok == SelectSeq(Positions, Succeeds)
    IN  [k \in 1 .. Len(ok) |-> cargs.coins[ok[k]]]

\* C26: a run for a known horizon does not raise whatever happens to a coin
\* (fetch error, no data, indicator error); it fetches every coin of the
\* list, in list order; the results hold exactly the coins that succeeded,
\* in list order; and every configured exporter is called once with these
\* results, or no exporter at all when no coin succeeded.
C26_FailureIsolation ==
    RunDone =>
        LET succeeded == Succeeded
        IN  /\ cret.raised = "no"
            /\ cret.fetched = cargs.coins
            /\ [k \in 1 .. Len(cret.results) |-> cret.results[k].coin] = succeeded
            /\ \A k \in 1 .. Len(cret.exports) : cret.exports[k].coins = succeeded
            /\ {cret.exports[k].exporter : k \in 1 .. Len(cret.exports)}
                   = (IF succeeded = <<>> THEN {} ELSE cargs.formats)
            /\ Len(cret.exports)
                   = (IF succeeded = <<>> THEN 0 ELSE Cardinality(cargs.formats))

\* the fetch of the first coin raises, the second coin's indicators raise,
\* the third coin is processed and exported alone
C26_Witness ==
    /\ RunDone /\ cargs.coins = <<"btc", "ada", "eth">>
    /\ FetchAt(cargs, 1).raised = "RequestException"
    /\ FetchAt(cargs, 2).raised = "no"
    /\ calculate_all_indicators(FetchAt(cargs, 2).returned, cargs.indicators).raised = "KeyError"
    /\ Succeeds(3)
    /\ cret.fetched = <<"btc", "ada", "eth">>
    /\ cret.exports = <<[exporter |-> "json", coins |-> <<"eth">>],
                        [exporter |-> "charts", coins |-> <<"eth">>]>>

(***************************************************************************)
(* Claims about the persisted snapshot (Spec, SpecUnforced)                *)
(***************************************************************************)
MetaOf(h) == snapshot[h]["meta"]
StampOrNone(t) == IF t = NoTime THEN PyNone ELSE Stamp(t)

\* C28: after any sequence of runs, the persisted history_last_updated of a
\* horizon is the time of its most recent run that included the history,
\* and long_stats_last_updated the time of its most recent run that
\* included the long stats: a run that leaves a section out keeps the
\* section's previous timestamp.
C28_SectionTimestampsKept ==
    \A h \in Horizons :
        ranAt[h] # NoTime =>
            /\ MetaOf(h)["history_last_updated"] = StampOrNone(histAt[h])
            /\ MetaOf(h)["long_stats_last_updated"] = StampOrNone(longAt[h])

MarketUnavailable == ~last.global_ok /\ ~last.context_ok

\* C29: an export that has results, gets no global market data and finds no
\* market_context.json completes without raising and writes the horizon's
\* new run timestamp to the combined snapshot.
C29_MarketDataUnavailable ==
    Ran /\ last.outcome # "skipped" /\ MarketUnavailable =>
        /\ last.outcome = "written"
        /\ MetaOf(last.horizon)["run_timestamp"] = Stamp(clock)

\* The calendar bucket of a time for a granularity: the date with the hour
\* (1h and unknown granularities), with the 4-hour period (4h), or alone (1d)
Bucket(t, granularity) ==
    LET d == DateTime(t)
    IN  IF granularity = "4h" THEN <<d.date, d.hour \div 4>>
        ELSE IF granularity = "1d" THEN <<d.date, 0>>
        ELSE <<d.date, d.hour>>

\* C30: in runs without force flags for several horizons, the decision of a
\* written run for horizon H follows from the time of H's previous written
\* run alone, whatever runs of other horizons came in between: with no
\* previous run of H it is (true, true); otherwise history is included
\* exactly when that run lies in another bucket of the granularity and long
\* stats exactly when it lies on another date; and a run that includes
\* history is never in the bucket of H's last run that included it.
C30_HorizonsIndependent ==
    [][Wrote' =>
          LET h == last'.horizon
              g == last'.granularity
              prev == ranAt[h]
          IN  /\ prev = NoTime => last'.include_history /\ last'.include_long_stats
              /\ prev # NoTime =>
                     /\ last'.include_history = (Bucket(prev, g) # Bucket(clock', g))
                     /\ last'.include_long_stats
                            = (DateTime(prev).date # DateTime(clock').date)
              /\ last'.include_history /\ histAt[h] # NoTime =>
                     Bucket(histAt[h], g) # Bucket(clock', g)]_vars

\* a run of H that refreshes the history although another horizon has run,
\* after H's previous run, in the bucket of this run
C30_Witness ==
    /\ Wrote /\ last.prev # NoTime /\ last.include_history /\ ~last.include_long_stats
    /\ \E o \in Horizons \ {last.horizon} :
           /\ ranAt[o] > last.prev
           /\ ranAt[o] <= clock
           /\ Bucket(ranAt[o], last.granularity) = Bucket(clock, last.granularity)

====
